---- MODULE Spec2Model ----
(***************************************************************************)
(* Model of flat_parse4_0.py: the flat-master orchestrator.  The Python    *)
(* side scans flat directories, groups frames by exposure and writes a     *)
(* configuration; the embedded PJSR script (PJSR_TEMPLATE) picks a dark    *)
(* for each group, calibrates and integrates.                              *)
(*                                                                         *)
(* Numbers.  Floating-point values are kept as scaled integers:            *)
(*   exposure    in units of 0.0001 s  (UnitsPerSec units per second)      *)
(*   exposure key (kexp, Python bucket key) in milliseconds                *)
(*   gain        in units of 0.005     (the 0.01 tolerance is 2 units)     *)
(*   offset      in units of 0.25      (the 0.5 tolerance is 2 units)      *)
(*   temperature in units of 0.5 C     (maxTempDeltaC 5.0 is 10 units)     *)
(*   metaScore   in units of 0.1                                           *)
(*   sigma / clip parameters in units of 0.01                              *)
(* An optional value (None / null / NaN) is the empty set, a present value *)
(* v is {v}.                                                               *)
(***************************************************************************)
EXTENDS Integers, Sequences, FiniteSets, TLC

\* ------------------------------------------------------------------ bounds
MaxCats == 3        \* longest dark catalog of the tier families
MaxCands == 2       \* longest catalog of the scored-candidate family
MaxFrames == 17     \* most frames handed to one integration
MaxRunCats == 3     \* longest dark catalog of an executed script
MaxListing == 5     \* most files of the directory that is grouped
MaxRuns == 2        \* most worker threads started
MaxRoots == 2       \* most base roots in the list
MaxFlatFiles == 5   \* most files in the flat directories together
MaxMetaFiles == 3   \* most files of the directory whose metadata is extracted
MaxDarkRoots == 2   \* most Dark Library roots in the list
MaxDarkFiles == 2   \* most files of the dark root directory

\* --------------------------------------------------------- program constants
KexpScale == 1000   \* kexp: Math.round(x*1000)/1000
ArgsVariants == 2   \* len(args_variants)
MinFrames == 3      \* integrateToMaster: paths.length < 3 throws

UnitsPerSec == 10 * KexpScale

None == {}
Some(v) == {v}
Num(x) == CHOOSE v \in x : TRUE
Abs(x) == IF x < 0 THEN 0 - x ELSE x

Range(s) == {s[i] : i \in DOMAIN s}

RECURSIVE SeqsUpTo(_, _)
\* every sequence over S of length <= n
SeqsUpTo(S, n) ==
  IF n = 0 THEN {<<>>}
  ELSE LET shorter == SeqsUpTo(S, n - 1)
       IN  shorter \cup {Append(s, x) : s \in {t \in shorter : Len(t) = n - 1}, x \in S}

\* ----------------------------------------------------------- PJSR helpers

\* kexp(x): the exposure rounded to 3 decimals, as a key (here: milliseconds).
\* Math.round rounds a half up.
kexp(x) == (x + 5) \div (UnitsPerSec \div KexpScale)

\* parseFloat(kk): the exposure a key stands for
parseFloatKey(k) == k * (UnitsPerSec \div KexpScale)

\* safeNum: undefined / null / NaN become NaN (the empty set), else the number
safeNum(x) == x
isNaN(x) == x = None

\* JavaScript truthiness of a binning string: null and "" are falsy
Truthy(b) == b # None /\ b # Some("")

\* CFG.match as runSelected writes it
CFGmatch ==
  [enforceBinning |-> TRUE, preferSameGainOffset |-> TRUE,
   preferClosestTemp |-> TRUE, maxTempDeltaC |-> 10]

\* CFG.rejection as runSelected writes it
CFGrejection == [lowSigma |-> Some(500), highSigma |-> Some(500)]

\* CFG.allowNearestExposureWithOptimize as runSelected writes it
CFGallowNearestExposureWithOptimize == TRUE

metaScoreFlatTemp(c, want, match) ==
  \* mutant: the temperature bonus does not decay inside the window
  LET cg == safeNum(c.gain)   wg == safeNum(want.gain)
      co == safeNum(c.offset) wo == safeNum(want.offset)
      ct == safeNum(c.temp)   wt == safeNum(want.temp)
  IN  (IF match.enforceBinning /\ Truthy(want.binning) /\ Truthy(c.binning)
          /\ c.binning = want.binning THEN 30 ELSE 0)
    + (IF match.preferSameGainOffset /\ ~isNaN(cg) /\ ~isNaN(wg)
          /\ Abs(Num(cg) - Num(wg)) < 2 THEN 20 ELSE 0)
    + (IF match.preferSameGainOffset /\ ~isNaN(co) /\ ~isNaN(wo)
          /\ Abs(Num(co) - Num(wo)) < 2 THEN 20 ELSE 0)
    + (IF match.preferClosestTemp /\ ~isNaN(ct) /\ ~isNaN(wt)
          /\ Abs(Num(ct) - Num(wt)) <= match.maxTempDeltaC
       THEN 15 ELSE 0)

metaScore(c, want, match) ==
  LET cg == safeNum(c.gain)   wg == safeNum(want.gain)
      co == safeNum(c.offset) wo == safeNum(want.offset)
      ct == safeNum(c.temp)   wt == safeNum(want.temp)
  IN  (IF match.enforceBinning /\ Truthy(want.binning) /\ Truthy(c.binning)
          /\ c.binning = want.binning THEN 30 ELSE 0)
    + (IF match.preferSameGainOffset /\ ~isNaN(cg) /\ ~isNaN(wg)
          /\ Abs(Num(cg) - Num(wg)) < 2 THEN 20 ELSE 0)
    + (IF match.preferSameGainOffset /\ ~isNaN(co) /\ ~isNaN(wo)
          /\ Abs(Num(co) - Num(wo)) < 2 THEN 20 ELSE 0)
    + (IF match.preferClosestTemp /\ ~isNaN(ct) /\ ~isNaN(wt)
          /\ Abs(Num(ct) - Num(wt)) <= match.maxTempDeltaC
       THEN 15 - Abs(Num(ct) - Num(wt)) ELSE 0)

\* groupByExp(cats, typeName): key -> the entries of that type, catalog order
groupByExp(cats, typeName) ==
  LET keys == {kexp(cats[i].exposure) : i \in {j \in DOMAIN cats : cats[j].type = typeName}}
  IN  [k \in keys |->
         SelectSeq(cats, LAMBDA c : c.type = typeName /\ kexp(c.exposure) = k)]

\* m[k] && m[k].length
HasKey(m, k) == k \in DOMAIN m /\ Len(m[k]) > 0

RECURSIVE Concat(_)
\* the sequences of a sequence, joined in order
Concat(seqs) == IF seqs = <<>> THEN <<>> ELSE Head(seqs) \o Concat(Tail(seqs))

RECURSIVE SortAsc(_)
SortAsc(S) ==
  IF S = {} THEN <<>>
  ELSE LET lo == CHOOSE x \in S : \A y \in S : x <= y
       IN  <<lo>> \o SortAsc(S \ {lo})

\* a key whose string is a canonical array index ("60", not "1.5")
IsIndexKey(k) == k >= 0 /\ k % KexpScale = 0

\* the order of first appearance of the keys K of type typeName in cats
RECURSIVE FirstSeen(_, _, _)
FirstSeen(cats, typeName, K) ==
  IF cats = <<>> \/ K = {} THEN <<>>
  ELSE LET c == Head(cats)
           k == kexp(c.exposure)
       IN  IF c.type = typeName /\ k \in K
           THEN <<k>> \o FirstSeen(Tail(cats), typeName, K \ {k})
           ELSE FirstSeen(Tail(cats), typeName, K)

\* for (kk in m): array-index keys ascending, then the others as inserted
ForInKeys(cats, typeName) ==
  LET keys == DOMAIN groupByExp(cats, typeName)
      idx  == {k \in keys : IsIndexKey(k)}
  IN  SortAsc(idx) \o FirstSeen(cats, typeName, keys \ idx)

\* ------------------------------------------------------ integrateToMaster

\* a fresh ImageIntegration: every parameter at the engine's default (None)
NewII ==
  [normalization |-> None, rejection |-> None, rejectionNormalization |-> None,
   pcClipLow |-> None, pcClipHigh |-> None,
   sigmaLow |-> None, sigmaHigh |-> None, winsorizationCutoff |-> None,
   linearFitLow |-> None, linearFitHigh |-> None]

\* the rejection selection for flats, by frame count
FlatRejection(II, n) ==
  IF n < 6
  THEN [II EXCEPT !.rejection = Some("Rej_PC"),
                  !.pcClipLow = Some(20), !.pcClipHigh = Some(10)]
  ELSE IF n <= 15
  THEN [II EXCEPT !.rejection = Some("Rej_Winsor"),
                  !.sigmaLow = Some(400), !.sigmaHigh = Some(300),
                  !.winsorizationCutoff = Some(500)]
  ELSE [II EXCEPT !.rejection = Some("Rej_LinFit"),
                  !.linearFitLow = Some(500), !.linearFitHigh = Some(400)]

\* "keep your sigma from 'rej' only when we are actually using sigma-based
\* rejection": typeof rej.lowSigma === "number" is a present value
RejOverride(II, rej) ==
  IF II.rejection = Some("Rej_Winsor")
  THEN [II EXCEPT !.sigmaLow  = IF rej.lowSigma  # None THEN rej.lowSigma  ELSE @,
                  !.sigmaHigh = IF rej.highSigma # None THEN rej.highSigma ELSE @]
  ELSE II

integrateToMasterNoMinimum(n, forDark, rej) ==
  \* mutant: only an empty list of frames is refused
  IF n = 0
  THEN [status |-> "throw", n |-> n, forDark |-> forDark, II |-> NewII]
  ELSE [status |-> "executed", n |-> n, forDark |-> forDark,
        II |-> RejOverride(IF forDark THEN NewII ELSE FlatRejection(NewII, n), rej)]

\* integrateToMaster(paths, outPath, forDark, hints, rej), n = paths.length:
\* the parameters in effect at II.executeGlobal(), or a throw before it
integrateToMaster(n, forDark, rej) ==
  IF n = 0 \/ n < MinFrames
  THEN [status |-> "throw", n |-> n, forDark |-> forDark, II |-> NewII]
  ELSE LET setup ==
             IF forDark
             THEN [NewII EXCEPT !.normalization = Some("Norm_None"),
                                !.rejection = Some("Rej_Winsor"),
                                !.rejectionNormalization = Some("RejNorm_None")]
             ELSE FlatRejection(
                    [NewII EXCEPT !.normalization = Some("Norm_Mult"),
                                  !.rejectionNormalization = Some("RejNorm_Eq")], n)
       IN  [status |-> "executed", n |-> n, forDark |-> forDark,
            II |-> RejOverride(setup, rej)]

\* ------------------------------------------------------------ pickDarkFor

CatPath(c) == [src |-> "cat", id |-> c.path, name |-> "", k |-> 0]
CachePath(name, k) == [src |-> "cache", id |-> 0, name |-> name, k |-> k]
NoPath == [src |-> "none", id |-> 0, name |-> "", k |-> 0]

RECURSIVE BestLoop(_, _, _, _, _, _)
\* for (i...) { s = metaScore(list[i]); if (s > bestS) { bestS = s; best = list[i]; } }
BestLoop(list, i, best, bestS, want, match) ==
  IF i > Len(list) THEN best
  ELSE LET s == metaScore(list[i], want, match)
       IN  IF s > bestS
           THEN BestLoop(list, i + 1, list[i], s, want, match)
           ELSE BestLoop(list, i + 1, best, bestS, want, match)

RECURSIVE LastWinsLoop(_, _, _, _, _, _)
LastWinsLoop(list, i, best, bestS, want, match) ==
  IF i > Len(list) THEN best
  ELSE LET s == metaScore(list[i], want, match)
       IN  IF s >= bestS
           THEN LastWinsLoop(list, i + 1, list[i], s, want, match)
           ELSE LastWinsLoop(list, i + 1, best, bestS, want, match)

BestOfLastWins(list, want, match) ==
  \* mutant: s >= bestS, so the last of several best candidates is kept
  LastWinsLoop(list, 1, list[1], 0 - 10, want, match)

\* best = list[0], bestS = -1, then the loop
BestOf(list, want, match) == BestLoop(list, 1, list[1], 0 - 10, want, match)

\* one call of integrateToMaster for a cache file, as pickDarkFor logs it
Call(name, k, n, rej) ==
  [name |-> name, k |-> k, n |-> n, status |-> integrateToMaster(n, TRUE, rej).status]

RECURSIVE NearestBuild(_, _, _, _, _)
\* for (kk in D): build MasterDark_<kk>s unless the file exists, push it
NearestBuild(keys, D, cache, rej, acc) ==
  IF keys = <<>> THEN acc
  ELSE LET kk == Head(keys)
           exists == CachePath("MasterDark", kk) \in cache
           call == Call("MasterDark", kk, Len(D[kk]), rej)
       IN  IF exists
           THEN NearestBuild(Tail(keys), D, cache, rej,
                  [acc EXCEPT !.all = Append(@, [path |-> CachePath("MasterDark", kk),
                                                 exposure |-> parseFloatKey(kk)])])
           ELSE IF call.status = "throw"
           THEN [acc EXCEPT !.calls = Append(@, call), !.thrown = TRUE]
           ELSE NearestBuild(Tail(keys), D, cache, rej,
                  [acc EXCEPT !.calls = Append(@, call),
                              !.all = Append(@, [path |-> CachePath("MasterDark", kk),
                                                 exposure |-> parseFloatKey(kk)])])

RECURSIVE Flatten(_, _)
\* for (kk in MD) for (a...) allMD.push(MD[kk][a])
Flatten(keys, MD) ==
  IF keys = <<>> THEN <<>>
  ELSE LET list == MD[Head(keys)]
       IN  [i \in 1..Len(list) |-> [path |-> CatPath(list[i]), exposure |-> list[i].exposure]]
           \o Flatten(Tail(keys), MD)

OutcomeAlwaysOptimize(status, tier, path, optimize, kind, calls) ==
  \* mutant: every selection asks for dark optimization
  [status |-> status, tier |-> tier, path |-> path, optimize |-> (status = "ok"),
   kind |-> kind, calls |-> calls]

Outcome(status, tier, path, optimize, kind, calls) ==
  [status |-> status, tier |-> tier, path |-> path, optimize |-> optimize,
   kind |-> kind, calls |-> calls]

NearestTierUnsorted(exp, cats, cache, rej) ==
  \* mutant: allMD is not sorted by distance, its first entry is returned
  LET MD == groupByExp(cats, "MASTERDARK")
      D  == groupByExp(cats, "DARK")
      b  == NearestBuild(ForInKeys(cats, "DARK"), D, cache, rej,
              [all |-> Flatten(ForInKeys(cats, "MASTERDARK"), MD),
               calls |-> <<>>, thrown |-> FALSE])
  IN  IF b.thrown
      THEN {Outcome("throw", 5, NoPath, FALSE, "", b.calls)}
      ELSE IF b.all # <<>>
      THEN {Outcome("ok", 5, b.all[1].path, TRUE, "MasterDark(nearest+optimize)", b.calls)}
      ELSE {Outcome("null", 0, NoPath, FALSE, "", b.calls)}

\* tier 5: every MASTERDARK and every (built) DARK stack of any exposure, the
\* one nearest to exp first after the sort; which of several nearest ones
\* comes first is left to the engine's sort
NearestTier(exp, cats, cache, rej) ==
  LET MD == groupByExp(cats, "MASTERDARK")
      D  == groupByExp(cats, "DARK")
      b  == NearestBuild(ForInKeys(cats, "DARK"), D, cache, rej,
              [all |-> Flatten(ForInKeys(cats, "MASTERDARK"), MD),
               calls |-> <<>>, thrown |-> FALSE])
      dist(a) == Abs(a.exposure - exp)
      nearest == {a \in Range(b.all) : \A o \in Range(b.all) : dist(a) <= dist(o)}
  IN  IF b.thrown
      THEN {Outcome("throw", 5, NoPath, FALSE, "", b.calls)}
      ELSE IF b.all # <<>>
      THEN {Outcome("ok", 5, a.path, TRUE, "MasterDark(nearest+optimize)", b.calls)
              : a \in nearest}
      ELSE {Outcome("null", 0, NoPath, FALSE, "", b.calls)}

pickDarkForBuildFirst(exp, want, cache, cats, rej, match) ==
  \* mutant: the DARKFLAT stack is tried before the MASTERDARKFLAT entries
  LET MDF == groupByExp(cats, "MASTERDARKFLAT")
      MD  == groupByExp(cats, "MASTERDARK")
      DF  == groupByExp(cats, "DARKFLAT")
      D   == groupByExp(cats, "DARK")
      k   == kexp(exp)
  IN  IF HasKey(DF, k)
      THEN LET call == Call("MasterDarkFlat", k, Len(DF[k]), rej)
           IN  IF call.status = "throw"
               THEN {Outcome("throw", 2, NoPath, FALSE, "", <<call>>)}
               ELSE {Outcome("ok", 2, CachePath("MasterDarkFlat", k), FALSE,
                             "MasterDarkFlat(built)", <<call>>)}
      ELSE IF HasKey(MDF, k)
      THEN {Outcome("ok", 1, CatPath(BestOf(MDF[k], want, match)), FALSE,
                    "MasterDarkFlat(exact)", <<>>)}
      ELSE IF HasKey(MD, k)
      THEN {Outcome("ok", 3, CatPath(BestOf(MD[k], want, match)), FALSE,
                    "MasterDark(exact)", <<>>)}
      ELSE IF HasKey(D, k)
      THEN LET call == Call("MasterDark", k, Len(D[k]), rej)
           IN  IF call.status = "throw"
               THEN {Outcome("throw", 4, NoPath, FALSE, "", <<call>>)}
               ELSE {Outcome("ok", 4, CachePath("MasterDark", k), FALSE,
                             "MasterDark(built)", <<call>>)}
      ELSE IF CFGallowNearestExposureWithOptimize
      THEN NearestTier(exp, cats, cache, rej)
      ELSE {Outcome("null", 0, NoPath, FALSE, "", <<>>)}

\* pickDarkFor(exp, want, cacheDir, cats, rej, hintsCal, match): the set of
\* possible outcomes; cache is the set of files present in cacheDir
pickDarkFor(exp, want, cache, cats, rej, match) ==
  LET MDF == groupByExp(cats, "MASTERDARKFLAT")
      MD  == groupByExp(cats, "MASTERDARK")
      DF  == groupByExp(cats, "DARKFLAT")
      D   == groupByExp(cats, "DARK")
      k   == kexp(exp)
  IN  IF HasKey(MDF, k)
      THEN {Outcome("ok", 1, CatPath(BestOf(MDF[k], want, match)), FALSE,
                    "MasterDarkFlat(exact)", <<>>)}
      ELSE IF HasKey(DF, k)
      THEN LET call == Call("MasterDarkFlat", k, Len(DF[k]), rej)
           IN  IF call.status = "throw"
               THEN {Outcome("throw", 2, NoPath, FALSE, "", <<call>>)}
               ELSE {Outcome("ok", 2, CachePath("MasterDarkFlat", k), FALSE,
                             "MasterDarkFlat(built)", <<call>>)}
      ELSE IF HasKey(MD, k)
      THEN {Outcome("ok", 3, CatPath(BestOf(MD[k], want, match)), FALSE,
                    "MasterDark(exact)", <<>>)}
      ELSE IF HasKey(D, k)
      THEN LET call == Call("MasterDark", k, Len(D[k]), rej)
           IN  IF call.status = "throw"
               THEN {Outcome("throw", 4, NoPath, FALSE, "", <<call>>)}
               ELSE {Outcome("ok", 4, CachePath("MasterDark", k), FALSE,
                             "MasterDark(built)", <<call>>)}
      ELSE IF CFGallowNearestExposureWithOptimize
      THEN NearestTier(exp, cats, cache, rej)
      ELSE {Outcome("null", 0, NoPath, FALSE, "", <<>>)}

\* the cache files an outcome leaves behind: every integration that executed
\* saved its master
CacheAfter(cache, o) ==
  cache \cup {CachePath(o.calls[i].name, o.calls[i].k)
                : i \in {j \in DOMAIN o.calls : o.calls[j].status = "executed"}}

\* ------------------------------------------------------------------ state

VARIABLES
  \* one call of pickDarkFor
  pkCats,       \* cats: the dark catalog (CFG.darkCatalog)
  pkExp,        \* exp: the group's exposure
  pkWant,       \* want: the group's profile
  pkCache,      \* the files present in cacheDir
  pkSel,        \* the outcome of the call
  pkPc,         \* "idle" | "call" | "returned"
  \* one call of integrateToMaster
  iiN,          \* paths.length
  iiOut,        \* the master being built: its file name prefix
  iiRes,        \* the result of the call
  iiPc,         \* "idle" | "call" | "returned"
  \* the application (FlatMasterApp) and the disk
  fsFlat,       \* directory -> its listing, in sorted name order
  baseList,     \* the FLAT base roots
  modelFlats,   \* the tree of discovered flat directories
  plan,         \* self.plan
  dark_catalog, \* self.dark_catalog
  modelDarks,   \* the dark inventory tree: the listed paths and the ticked ones
  js,           \* the CFG of the script runSelected wrote last
  \* one execution of the script: run()
  run_pc,       \* "idle" | "running" | "done" | "failed"
  run_j,        \* j: the job in hand
  run_g,        \* g: the group in hand
  cacheFiles,   \* directory -> the files of its _DarkMasters cache
  darkLog,      \* the dark integrations executed, in order
  flatLog,      \* the groups calibrated and integrated, in order
  failure,      \* the error run() threw
  sentinel,     \* the sentinel file: "absent" | "OK" | "ERROR"
  \* the grouping of one directory by scan_flats
  grListing,    \* the files of the directory, in sorted order, with metadata
  grBins,       \* bins: key -> files
  grMissing,    \* m["missing_exp"]
  grGroups,     \* the groups kept for the plan
  grAgain,      \* the groups of a second grouping of the kept files
  grPc,         \* "idle" | "listed" | "grouped" | "regrouped"
  \* runSelected and its worker threads
  pi_exe,       \* piExeEdit names an existing file
  dialog,       \* the message box on screen, "" when there is none
  workers,      \* the worker threads started, in order
  sentinel_path, \* the sentinel file in the temporary directory
  \* _scan_files_meta_threaded on the files of one directory, and the grouping
  HAS_ASTROPY,  \* _HAS_ASTROPY: astropy could be imported
  mtFiles,      \* paths: the candidate files, in sorted order
  mtFuts,       \* the places of the tasks that have not completed
  mtOut,        \* out: the (path, meta) pairs in the order they were stored
  mtRes,        \* meta_map, bins and groups once the directory is grouped
  mtPc,         \* "idle" | "extract" | "grouped"
  \* the dark library
  darkListRoots, \* the Dark Library roots, in the order they were added
  fsDark         \* dark directory -> its listing, in os.walk's file order

pkVars == <<pkCats, pkExp, pkWant, pkCache, pkSel, pkPc>>
iiVars == <<iiN, iiOut, iiRes, iiPc>>
appVars == <<fsFlat, baseList, modelFlats, plan, dark_catalog, modelDarks, js>>
runVars == <<run_pc, run_j, run_g, cacheFiles, darkLog, flatLog, failure, sentinel>>
grVars == <<grListing, grBins, grMissing, grGroups, grAgain, grPc>>
lnVars == <<pi_exe, dialog, workers, sentinel_path>>
mtVars == <<HAS_ASTROPY, mtFiles, mtFuts, mtOut, mtRes, mtPc>>
dkVars == <<darkListRoots, fsDark>>
vars == <<pkVars, iiVars, appVars, runVars, grVars, lnVars, mtVars, dkVars>>

NoOutcome == Outcome("none", 0, NoPath, FALSE, "", <<>>)
NoWant == [binning |-> None, gain |-> None, offset |-> None, temp |-> None]
NoII == [status |-> "none", n |-> 0, forDark |-> FALSE, II |-> NewII]

PickIdle ==
  /\ pkCats = <<>> /\ pkExp = 0 /\ pkWant = NoWant /\ pkCache = {}
  /\ pkSel = NoOutcome /\ pkPc = "idle"

IIIdle == iiN = 0 /\ iiOut = "" /\ iiRes = NoII /\ iiPc = "idle"

NoTree == [root |-> FALSE, dirs |-> <<>>]
NoInventory == [root |-> FALSE, listed |-> {}, ticked |-> {}]
NoCfg == [written |-> FALSE, plan |-> <<>>, darkCatalog |-> <<>>]

NoFailure == [job |-> 0, group |-> 0, error |-> ""]

RunIdle ==
  /\ run_pc = "idle" /\ run_j = 0 /\ run_g = 0 /\ cacheFiles = <<>>
  /\ darkLog = <<>> /\ flatLog = <<>> /\ failure = NoFailure /\ sentinel = "absent"

GroupIdle ==
  /\ grListing = <<>> /\ grBins = <<>> /\ grMissing = 0 /\ grGroups = <<>>
  /\ grAgain = <<>> /\ grPc = "idle"

NoFile == [exists |-> FALSE, text |-> "", by |-> <<0, 0>>]

LaunchIdle ==
  /\ pi_exe = FALSE /\ dialog = "" /\ workers = <<>> /\ sentinel_path = NoFile

NoScan == [meta_map |-> <<>>, bins |-> <<>>, groups |-> <<>>]

MetaIdle ==
  /\ HAS_ASTROPY = TRUE /\ mtFiles = <<>> /\ mtFuts = {} /\ mtOut = <<>>
  /\ mtRes = NoScan /\ mtPc = "idle"

DarkIdle == darkListRoots = <<>> /\ fsDark = <<>>

AppIdle ==
  /\ fsFlat = <<>> /\ baseList = <<>> /\ modelFlats = NoTree /\ plan = <<>>
  /\ dark_catalog = <<>> /\ modelDarks = NoInventory /\ js = NoCfg

\* ------------------------------------------ specification of pickDarkFor

DarkTypes == {"MASTERDARKFLAT", "MASTERDARK", "DARKFLAT", "DARK"}
MasterTypes == {"MASTERDARKFLAT", "MASTERDARK"}

TargetExposure == 120 * UnitsPerSec
DarkExposures == {60 * UnitsPerSec, 120 * UnitsPerSec, 120 * UnitsPerSec + 4, 300 * UnitsPerSec}

\* the wanted profile of the scored family: binning "1", gain 100.0,
\* offset 10.0, temperature -10.0 C
FullWant == [binning |-> Some("1"), gain |-> Some(20000), offset |-> Some(40), temp |-> Some(0 - 20)]
Wants == {NoWant, FullWant}

\* a dark without usable header values
BareDark(type, e) ==
  [type |-> type, exposure |-> e, binning |-> None, gain |-> None, offset |-> None, temp |-> None]

\* master candidates at the target exposure: binning unknown, equal or
\* different; gain and offset unknown or equal; temperature equal, 2 C off
\* or 6 C off (outside the window)
Candidates ==
  {[type |-> t, exposure |-> TargetExposure, binning |-> b, gain |-> g[1], offset |-> g[2],
    temp |-> Some(0 - 20 + d)]
     : t \in MasterTypes, b \in {None, Some("1"), Some("2")},
       g \in {<<None, None>>, <<Some(20000), Some(40)>>}, d \in {0, 4, 12}}

\* catalog entries get their path from their place in the catalog
WithPaths(s) ==
  [i \in DOMAIN s |->
     [path |-> i, type |-> s[i].type, exposure |-> s[i].exposure, binning |-> s[i].binning,
      gain |-> s[i].gain, offset |-> s[i].offset, temp |-> s[i].temp]]

TierCatalogs ==
  {WithPaths(s) : s \in SeqsUpTo({BareDark(t, e) : t \in DarkTypes, e \in DarkExposures}, MaxCats)}
ScoredCatalogs == {WithPaths(s) : s \in SeqsUpTo(Candidates, MaxCands)}

\* one master dark at the target exposure with values at and around the
\* tolerances of metaScore: gain equal, 0.005 off, 0.01 off; offset equal,
\* 0.25 off, 0.5 off; temperature equal, 5 C off, 5.5 C off; or unknown
NearCandidates ==
  {[type |-> "MASTERDARK", exposure |-> TargetExposure, binning |-> Some("1"),
    gain |-> g, offset |-> o, temp |-> t]
     : g \in {None, Some(20000), Some(20001), Some(20002)},
       o \in {None, Some(40), Some(41), Some(42)},
       t \in {None, Some(0 - 20), Some(0 - 10), Some(0 - 9)}}
ToleranceCatalogs == {WithPaths(<<c>>) : c \in NearCandidates}

InitPick ==
  /\ \/ /\ pkCats \in TierCatalogs
        /\ pkWant = NoWant
        /\ pkCache \in SUBSET {CachePath("MasterDark", kexp(60 * UnitsPerSec))}
     \/ /\ pkCats \in ScoredCatalogs
        /\ pkWant \in Wants
        /\ pkCache = {}
     \/ /\ pkCats \in ToleranceCatalogs
        /\ pkWant = FullWant
        /\ pkCache = {}
  /\ pkExp = TargetExposure
  /\ pkSel = NoOutcome
  /\ pkPc = "call"
  /\ IIIdle
  /\ AppIdle
  /\ RunIdle
  /\ GroupIdle
  /\ LaunchIdle
  /\ MetaIdle
  /\ DarkIdle

\* sel = pickDarkFor(exp, want, cacheDir, cats, rej, hintsCal, match)
PickDark ==
  /\ pkPc = "call"
  /\ \E o \in pickDarkFor(pkExp, pkWant, pkCache, pkCats, CFGrejection, CFGmatch) :
       /\ pkSel' = o
       /\ pkCache' = CacheAfter(pkCache, o)
  /\ pkPc' = "returned"
  /\ UNCHANGED <<pkCats, pkExp, pkWant, iiVars, appVars, runVars, grVars, lnVars, mtVars, dkVars>>

NextPick == PickDark

SpecPick == InitPick /\ [][NextPick]_vars

\* ------------------------------------ specification of integrateToMaster

\* the three masters the script builds: dark caches (forDark) and the flat
MasterNames == {"MasterDarkFlat", "MasterDark", "MasterFlat"}
ForDark(out) == out # "MasterFlat"

InitII ==
  /\ iiN \in 0..MaxFrames
  /\ iiOut \in MasterNames
  /\ iiRes = NoII
  /\ iiPc = "call"
  /\ PickIdle
  /\ AppIdle
  /\ RunIdle
  /\ GroupIdle
  /\ LaunchIdle
  /\ MetaIdle
  /\ DarkIdle

\* integrateToMaster(paths, outPath, forDark, hints, rej) with rej = CFG.rejection
Integrate ==
  /\ iiPc = "call"
  /\ iiRes' = integrateToMaster(iiN, ForDark(iiOut), CFGrejection)
  /\ iiPc' = "returned"
  /\ UNCHANGED <<iiN, iiOut, pkVars, appVars, runVars, grVars, lnVars, mtVars, dkVars>>

NextII == Integrate

SpecII == InitII /\ [][NextII]_vars

\* ------------------------------------------- the application: scanning

\* Directories.  "A" is a flat root as the file tree spells it and "B"
\* its subdirectory as os.walk spells it, os.path.join("A", "B").  "A/B" is
\* the same subdirectory as the file tree spells it (forward slashes):
\* another string where os.sep is "\".  The other directories are what a
\* run leaves behind and a hidden directory; each stands for its own path.
Dirs == {"A", "B"}
OutputDirs == {"B_processed", "_CalibratedFlats_1s", "_DarkMasters", ".hidden"}

\* the directory a path names
realdir(p) == IF p = "A/B" THEN "B" ELSE IF p = "D/E" THEN "E" ELSE p

\* the subdirectories os.walk finds in a directory, by name
Subdirs(d) ==
  IF d = "A" THEN <<"B", "B_processed", ".hidden">>
  ELSE IF d = "B" THEN <<"_DarkMasters">>
  ELSE IF d = "B_processed" THEN <<"_CalibratedFlats_1s">>
  ELSE <<>>

\* the subdirectories of the directory tree on disk
Children(d) == SelectSeq(Subdirs(realdir(d)), LAMBDA n : n \in DOMAIN fsFlat)

\* name.lower() and name.startswith(".")
lower(name) ==
  IF name = "_DarkMasters" THEN "_darkmasters"
  ELSE IF name = "_CalibratedFlats_1s" THEN "_calibratedflats_1s"
  ELSE IF name = "B_processed" THEN "b_processed"
  ELSE IF name = "B" THEN "b"
  ELSE name
startswith_dot(name) == name = ".hidden"

\* SKIP_DIR_PATTERNS, matched against the lower-cased name, and hidden names
SKIP_DIR_PATTERNS == {"_darkmasters", "_calibratedflats", "masters"}
is_skip_dir(name) == lower(name) \in SKIP_DIR_PATTERNS \/ startswith_dot(name)

RECURSIVE os_walk(_)
\* os.walk(top), top-down, with the skipped subdirectories pruned
os_walk(top) ==
  LET kids == SelectSeq(Children(top), LAMBDA d : ~is_skip_dir(d))
      sub[i \in 0..Len(kids)] == IF i = 0 THEN <<>> ELSE sub[i - 1] \o os_walk(kids[i])
  IN  <<top>> \o sub[Len(kids)]

FILE_EXTS == {".xisf", ".fits", ".fit"}

\* MASTER_RE = ^MasterFlat_.*\.xisf$ (IGNORECASE) on a file whose name starts
\* with MasterFlat_ (f.master) and whose lower-cased extension is f.ext
MASTER_RE_match(f) == f.master /\ f.ext = ".xisf"

\* _dir_image_files(dir_path): the places, in sorted order, of the listing's
\* image files that are not previously integrated masters
dir_image_files(listing) ==
  SelectSeq([i \in DOMAIN listing |-> i],
            LAMBDA i : listing[i].ext \in FILE_EXTS /\ ~MASTER_RE_match(listing[i]))

bucket_keyTruncate(ex) ==
  \* mutant: the exposure is cut to 3 decimals
  ex \div 10

\* round(ex, 3) formatted "%.3f": the bucket key, in milliseconds.  Python
\* rounds the binary value; an exact decimal half (not among the exposures
\* used here) is taken to the even neighbour.
bucket_key(ex) ==
  LET q == ex \div 10
      r == ex % 10
  IN  IF r < 5 THEN q ELSE IF r > 5 THEN q + 1 ELSE IF q % 2 = 0 THEN q ELSE q + 1

\* float(k) of a key
float_key(k) == k * 10

\* bins: key -> the files of that rounded exposure, in flat_files order;
\* files without exposure are in no bin
bins_of(listing) ==
  LET flat_files == dir_image_files(listing)
      with_exp == SelectSeq(flat_files, LAMBDA i : listing[i].meta.exposure # None)
      keys == {bucket_key(Num(listing[i].meta.exposure)) : i \in Range(with_exp)}
  IN  [k \in keys |->
         SelectSeq(with_exp, LAMBDA i : bucket_key(Num(listing[i].meta.exposure)) = k)]

\* wants[k]: from the metadata of the first file of the bin
want_of(m0) ==
  [binning |-> m0.binning, gain |-> m0.gain, offset |-> m0.offset, temp |-> m0.temp]

keep_binAtLeastTwo(plist) ==
  \* mutant: the threshold is 2
  Len(plist) >= 2

\* "filter out groups with <3 files"
keep_bin(plist) == Len(plist) >= 3

\* a want object with all four keys, and the empty object {}
FullObject(w) == [keys |-> {"binning", "gain", "offset", "temp"}, val |-> w]
EmptyObject == [keys |-> {}, val |-> NoWant]

groups_ofWithoutFirst(r, listing) ==
  \* mutant: the file the want is read from is left out of its group
  LET bins == bins_of(listing)
      order == SortAsc({k \in DOMAIN bins : keep_bin(bins[k])})
  IN  [g \in DOMAIN order |->
        [exposure |-> float_key(order[g]),
         files |-> [i \in DOMAIN Tail(bins[order[g]]) |-> <<r, Tail(bins[order[g]])[i]>>],
         want |-> FullObject(want_of(listing[bins[order[g]][1]].meta))]]

\* the groups of one directory, by ascending key: for self.plan and, as
\* labelled nodes, for the tree
groups_of(r, listing) ==
  LET bins == bins_of(listing)
      order == SortAsc({k \in DOMAIN bins : keep_bin(bins[k])})
  IN  [g \in DOMAIN order |->
        [exposure |-> float_key(order[g]),
         files |-> [i \in DOMAIN bins[order[g]] |-> <<r, bins[order[g]][i]>>],
         want |-> FullObject(want_of(listing[bins[order[g]][1]].meta))]]

nodes_of(listing) ==
  LET bins == bins_of(listing)
      order == SortAsc({k \in DOMAIN bins : keep_bin(bins[k])})
  IN  [g \in DOMAIN order |->
        [label |-> [key |-> order[g], count |-> Len(bins[order[g]])],
         children |-> bins[order[g]]]]

scan_dirKeepEmpty(r, listing, acc) ==
  \* mutant: a directory without a surviving group is not skipped
  IF dir_image_files(listing) = <<>> \/ r \in acc.seen_dirs THEN acc
  ELSE [seen_dirs |-> acc.seen_dirs \cup {r},
        plan |-> Append(acc.plan, [dirPath |-> r, groups |-> groups_of(r, listing)]),
        items |-> Append(acc.items, [dir |-> r, checked |-> TRUE, nodes |-> nodes_of(listing)])]

\* the body of scan_flats' loop for one visited directory r
scan_dir(r, listing, acc) ==
  IF dir_image_files(listing) = <<>> THEN acc
  ELSE IF r \in acc.seen_dirs THEN acc
  ELSE LET seen == [acc EXCEPT !.seen_dirs = @ \cup {r}]
       IN  IF groups_of(r, listing) = <<>> THEN seen
           ELSE [seen_dirs |-> seen.seen_dirs,
                 plan |-> Append(acc.plan, [dirPath |-> r, groups |-> groups_of(r, listing)]),
                 items |-> Append(acc.items,
                            [dir |-> r, checked |-> TRUE, nodes |-> nodes_of(listing)])]

RECURSIVE scan_walk(_, _, _)
scan_walk(walk, fs, acc) ==
  IF walk = <<>> THEN acc
  ELSE scan_walk(Tail(walk), fs, scan_dir(Head(walk), fs[realdir(Head(walk))], acc))

RECURSIVE scan_bases(_, _, _)
\* for base in base_roots: for r, dirs, files in os.walk(base): ...
scan_bases(bases, fs, acc) ==
  IF bases = <<>> THEN acc
  ELSE scan_bases(Tail(bases), fs, scan_walk(os_walk(Head(bases)), fs, acc))

\* scan_flats: the tree, self.plan and self.dark_catalog are reset, then
\* every directory under every base root is listed, grouped and filtered
scan_flats ==
  /\ dialog = ""
  /\ IF baseList = <<>>
     THEN /\ dialog' = "No base roots"
          /\ UNCHANGED <<pi_exe, workers, sentinel_path, appVars>>
     ELSE LET res == scan_bases(baseList, fsFlat,
                                [seen_dirs |-> {}, plan |-> <<>>, items |-> <<>>])
          IN  /\ modelFlats' = [root |-> TRUE, dirs |-> res.items]
              /\ plan' = res.plan
              /\ dark_catalog' = <<>>
              /\ UNCHANGED <<fsFlat, baseList, modelDarks, js, lnVars>>
  /\ UNCHANGED <<pkVars, iiVars, runVars, grVars, mtVars, dkVars>>

\* ---------------------------------------------- the application: darks

\* Dark directories.  "D" is a dark root as the directory dialog spells it
\* and "E" its subdirectory as os.walk spells it, os.path.join("D", "E");
\* "D/E" is the same subdirectory picked in the dialog.
DarkSubdirs(d) == IF d = "D" THEN <<"E">> ELSE <<>>

RECURSIVE dark_walk(_, _)
\* os.walk(dr) of _iter_candidate_files, the skipped subdirectories pruned
dark_walk(top, fs) ==
  LET kids == SelectSeq(DarkSubdirs(realdir(top)),
                        LAMBDA d : d \in DOMAIN fs /\ ~is_skip_dir(d))
      sub[i \in 0..Len(kids)] == IF i = 0 THEN <<>> ELSE sub[i - 1] \o dark_walk(kids[i], fs)
  IN  <<top>> \o sub[Len(kids)]

\* the files of directory r with a supported extension, as the paths
\* os.path.join(r, fn), in listing order
candidates_in(r, fs) ==
  LET listing == fs[realdir(r)]
      keep == SelectSeq([i \in DOMAIN listing |-> i], LAMBDA i : listing[i].ext \in FILE_EXTS)
  IN  [n \in DOMAIN keep |-> [path |-> <<r, keep[n]>>, type |-> listing[keep[n]].type,
                              meta |-> listing[keep[n]].meta]]

\* _iter_candidate_files(roots, label): every root is walked, in order
iter_candidate_files(roots, fs) ==
  LET dirs == Concat([n \in DOMAIN roots |-> dark_walk(roots[n], fs)])
  IN  Concat([n \in DOMAIN dirs |-> candidates_in(dirs[n], fs)])

\* a dark file: type is _classify_dark_type of its name, meta what
\* read_meta returns for it
DarkFile(type, exposure) ==
  [ext |-> ".xisf", type |-> type,
   meta |-> [exposure |-> exposure, binning |-> IF exposure = None THEN None ELSE Some("1"),
             gain |-> None, offset |-> None, temp |-> None]]

\* the dark library on disk, in the order the walk yields it: a master dark
\* of 1 s and a dark whose exposure cannot be read
DarkLibrary == <<DarkFile("MASTERDARK", Some(1 * UnitsPerSec)), DarkFile("DARK", None)>>

\* the catalog scan_darks builds from the candidate files
catalog_of(cand) ==
  LET usable == SelectSeq(cand, LAMBDA f : f.type # "" /\ f.meta.exposure # None)
  IN  [i \in DOMAIN usable |->
         [path |-> usable[i].path, type |-> usable[i].type,
          exposure |-> Num(usable[i].meta.exposure), binning |-> usable[i].meta.binning,
          gain |-> usable[i].meta.gain, offset |-> usable[i].meta.offset,
          temp |-> usable[i].meta.temp]]

\* scan_darks: the inventory is rebuilt with every file ticked; without a
\* dark root the catalog is emptied
scan_darks ==
  LET catalog == IF darkListRoots = <<>> THEN <<>>
                 ELSE catalog_of(iter_candidate_files(darkListRoots, fsDark))
  IN  /\ dialog = ""
      /\ dark_catalog' = catalog
      /\ modelDarks' = [root |-> TRUE,
                        listed |-> {catalog[i].path : i \in DOMAIN catalog},
                        ticked |-> {catalog[i].path : i \in DOMAIN catalog}]
      /\ UNCHANGED <<fsFlat, baseList, modelFlats, plan, js, pkVars, iiVars, runVars, grVars, lnVars, mtVars, dkVars>>

\* ------------------------------------------ the application: selection

\* the user ticks or unticks one directory of the flat tree
ToggleDir ==
  \E i \in DOMAIN modelFlats.dirs :
    /\ dialog = ""
    /\ modelFlats' = [modelFlats EXCEPT !.dirs[i].checked = ~@]
    /\ UNCHANGED <<fsFlat, baseList, plan, dark_catalog, modelDarks, js, pkVars, iiVars, runVars, grVars, lnVars, mtVars, dkVars>>

\* _set_all_dirs(checked)
set_all_dirs ==
  \E checked \in BOOLEAN :
    /\ dialog = ""
    /\ modelFlats.root
    /\ modelFlats' =
         [modelFlats EXCEPT !.dirs = [i \in DOMAIN @ |-> [@[i] EXCEPT !.checked = checked]]]
    /\ UNCHANGED <<fsFlat, baseList, plan, dark_catalog, modelDarks, js, pkVars, iiVars, runVars, grVars, lnVars, mtVars, dkVars>>

\* _gather_allowed_darks
gather_allowed_darks ==
  IF ~modelDarks.root THEN <<>>
  ELSE SelectSeq(dark_catalog, LAMBDA d : d.path \in modelDarks.ticked)

\* float(label.split("s", 1)[0]) of a group label "<key>s  (<n> files)"
label_exposure(label) == float_key(label.key)

\* _gather_selected_plan: rebuilt from the ticked rows of the tree
gather_selected_plan ==
  IF ~modelFlats.root THEN <<>>
  ELSE LET ticked == SelectSeq(modelFlats.dirs, LAMBDA it : it.checked)
       IN  [j \in DOMAIN ticked |->
             [dirPath |-> ticked[j].dir,
              groups |-> [g \in DOMAIN ticked[j].nodes |->
                           [exposure |-> label_exposure(ticked[j].nodes[g].label),
                            files |-> [i \in DOMAIN ticked[j].nodes[g].children |->
                                         <<ticked[j].dir, ticked[j].nodes[g].children[i]>>],
                            want |-> EmptyObject]]]]

\* a worker thread as runSelected starts it: before its first attempt
NewWorker == [pc |-> "spawn", attempt |-> 1, report |-> [kind |-> "", text |-> "", by |-> <<0, 0>>]]

runSelectedNoDarkCheck ==
  \* mutant: the script is written and the worker started without a dark
  /\ dialog = ""
  /\ LET selected_plan == gather_selected_plan
         allowed_darks == gather_allowed_darks
     IN  IF ~pi_exe
         THEN /\ dialog' = "Missing PixInsight"
              /\ UNCHANGED <<pi_exe, workers, sentinel_path, js>>
         ELSE IF selected_plan = <<>>
         THEN /\ dialog' = "Nothing selected"
              /\ UNCHANGED <<pi_exe, workers, sentinel_path, js>>
         ELSE /\ Len(workers) < MaxRuns
              /\ sentinel_path' = NoFile
              /\ js' = [written |-> TRUE, plan |-> selected_plan, darkCatalog |-> allowed_darks]
              /\ workers' = Append(workers, NewWorker)
              /\ UNCHANGED <<pi_exe, dialog>>
  /\ UNCHANGED <<fsFlat, baseList, modelFlats, plan, dark_catalog, modelDarks,
                 pkVars, iiVars, runVars, grVars, mtVars, dkVars>>

\* runSelected: a message box and nothing else without a PixInsight
\* executable, a ticked directory or an allowed dark; otherwise the old
\* sentinel is removed, the script is written and a worker thread started
runSelected ==
  /\ dialog = ""
  /\ LET selected_plan == gather_selected_plan
         allowed_darks == gather_allowed_darks
     IN  IF ~pi_exe
         THEN /\ dialog' = "Missing PixInsight"
              /\ UNCHANGED <<pi_exe, workers, sentinel_path, js>>
         ELSE IF selected_plan = <<>>
         THEN /\ dialog' = "Nothing selected"
              /\ UNCHANGED <<pi_exe, workers, sentinel_path, js>>
         ELSE IF allowed_darks = <<>>
         THEN /\ dialog' = "No darks selected"
              /\ UNCHANGED <<pi_exe, workers, sentinel_path, js>>
         ELSE /\ Len(workers) < MaxRuns
              /\ sentinel_path' = NoFile
              /\ js' = [written |-> TRUE, plan |-> selected_plan, darkCatalog |-> allowed_darks]
              /\ workers' = Append(workers, NewWorker)
              /\ UNCHANGED <<pi_exe, dialog>>
  /\ UNCHANGED <<fsFlat, baseList, modelFlats, plan, dark_catalog, modelDarks,
                 pkVars, iiVars, runVars, grVars, mtVars, dkVars>>

\* the user closes the message box
DismissDialog ==
  /\ dialog # ""
  /\ dialog' = ""
  /\ UNCHANGED <<pi_exe, workers, sentinel_path, appVars, pkVars, iiVars, runVars, grVars, mtVars, dkVars>>

\* the files a flat directory may hold: frames without readable exposure,
\* of 1 s, of 1.0004 s (the same bucket, another profile) and of 2 s
FlatFileKinds ==
  { [ext |-> ".fits", master |-> FALSE,
     meta |-> [exposure |-> None, binning |-> None, gain |-> None, offset |-> None,
               temp |-> None]],
    [ext |-> ".fits", master |-> FALSE,
     meta |-> [exposure |-> Some(1 * UnitsPerSec), binning |-> Some("1"),
               gain |-> Some(20000), offset |-> Some(40), temp |-> Some(0 - 20)]],
    [ext |-> ".xisf", master |-> FALSE,
     meta |-> [exposure |-> Some(1 * UnitsPerSec + 4), binning |-> Some("2"),
               gain |-> None, offset |-> None, temp |-> None]],
    [ext |-> ".fit", master |-> FALSE,
     meta |-> [exposure |-> Some(2 * UnitsPerSec), binning |-> Some("1"),
               gain |-> None, offset |-> None, temp |-> None]] }

\* the subdirectory B holds at most the files of one group
Disks ==
  UNION {{[A |-> a, B |-> b]
            : b \in SeqsUpTo(FlatFileKinds,
                             IF MaxFlatFiles - Len(a) < MinFrames
                             THEN MaxFlatFiles - Len(a) ELSE MinFrames)}
           : a \in SeqsUpTo(FlatFileKinds, MaxFlatFiles)}

Init ==
  /\ fsFlat \in Disks
  /\ baseList = <<"A">>
  /\ modelFlats = NoTree
  /\ plan = <<>>
  /\ dark_catalog = <<>>
  /\ modelDarks = NoInventory
  /\ js = NoCfg
  /\ pi_exe = TRUE
  /\ dialog = ""
  /\ workers = <<>>
  /\ sentinel_path = NoFile
  /\ PickIdle
  /\ IIIdle
  /\ RunIdle
  /\ GroupIdle
  /\ MetaIdle
  /\ darkListRoots = <<"D">>
  /\ fsDark = [d \in {"D"} |-> DarkLibrary]

Next ==
  \/ scan_flats
  \/ scan_darks
  \/ ToggleDir
  \/ set_all_dirs
  \/ runSelected
  \/ DismissDialog

Spec == Init /\ [][Next]_vars

\* ------------------------------------- the worker thread of runSelected

\* what the worker does after an attempt that left no sentinel, or could
\* not be spawned: the next variant of the arguments, or the end
NextAttempt(wk, kind) ==
  [pc |-> IF wk.attempt < ArgsVariants THEN "spawn" ELSE "done",
   attempt |-> IF wk.attempt < ArgsVariants THEN wk.attempt + 1 ELSE wk.attempt,
   report |-> [kind |-> kind, text |-> "", by |-> <<0, 0>>]]

\* subprocess.Popen(args): PixInsight starts, or "[spawn error]" and continue
WorkerSpawn ==
  \E w \in DOMAIN workers : \E started \in BOOLEAN :
    /\ workers[w].pc = "spawn"
    /\ workers' = [workers EXCEPT ![w] =
                     IF started THEN [@ EXCEPT !.pc = "engine"]
                     ELSE NextAttempt(@, "spawn error")]
    /\ UNCHANGED <<pi_exe, dialog, sentinel_path, appVars, pkVars, iiVars, runVars, grVars, mtVars, dkVars>>

\* PixInsight runs and exits (proc.wait() returns): the script wrote OK,
\* or caught an error and wrote ERROR, or no sentinel was written
EngineExit ==
  \E w \in DOMAIN workers : \E out \in {"OK", "ERROR", "none"} :
    /\ workers[w].pc = "engine"
    /\ sentinel_path' = IF out = "none" THEN sentinel_path
                        ELSE [exists |-> TRUE, text |-> out, by |-> <<w, workers[w].attempt>>]
    /\ workers' = [workers EXCEPT ![w].pc = "check"]
    /\ UNCHANGED <<pi_exe, dialog, appVars, pkVars, iiVars, runVars, grVars, mtVars, dkVars>>

\* if sentinel_path.exists(): "[sentinel] <text>" and break; else
\* "[sentinel] missing; trying next variant..."
WorkerCheck ==
  \E w \in DOMAIN workers :
    /\ workers[w].pc = "check"
    /\ workers' = [workers EXCEPT ![w] =
                     IF sentinel_path.exists
                     THEN [pc |-> "done", attempt |-> @.attempt,
                           report |-> [kind |-> "sentinel", text |-> sentinel_path.text,
                                       by |-> sentinel_path.by]]
                     ELSE NextAttempt(@, "missing")]
    /\ UNCHANGED <<pi_exe, dialog, sentinel_path, appVars, pkVars, iiVars, runVars, grVars, mtVars, dkVars>>

\* a flat root with one directory of 3 frames of 1 s
LaunchDisk ==
  LET frame == [ext |-> ".fits", master |-> FALSE,
                meta |-> [exposure |-> Some(1 * UnitsPerSec), binning |-> Some("1"),
                          gain |-> None, offset |-> None, temp |-> None]]
  IN  [A |-> <<frame, frame, frame>>, B |-> <<>>]

InitLaunch ==
  /\ fsFlat = LaunchDisk
  /\ baseList = <<"A">>
  /\ modelFlats = NoTree
  /\ plan = <<>>
  /\ dark_catalog = <<>>
  /\ modelDarks = NoInventory
  /\ js = NoCfg
  /\ pi_exe \in BOOLEAN
  /\ dialog = ""
  /\ workers = <<>>
  /\ sentinel_path = NoFile
  /\ PickIdle
  /\ IIIdle
  /\ RunIdle
  /\ GroupIdle
  /\ MetaIdle
  /\ darkListRoots = <<"D">>
  /\ fsDark = [d \in {"D"} |-> DarkLibrary]

NextLaunch ==
  \/ scan_flats
  \/ scan_darks
  \/ ToggleDir
  \/ set_all_dirs
  \/ runSelected
  \/ DismissDialog
  \/ WorkerSpawn
  \/ EngineExit
  \/ WorkerCheck

SpecLaunch == InitLaunch /\ [][NextLaunch]_vars

\* ------------------------------------- scan_flats over a processed tree

\* what the directories may hold.  A frame of 1 s, a frame ImageCalibration
\* wrote (postfix _c), a master flat the script saved and a master flat kept
\* as FITS (MasterFlat_... .xisf / .fits), a master dark of the cache
WalkFile(ext, master) ==
  [ext |-> ext, master |-> master,
   meta |-> [exposure |-> Some(1 * UnitsPerSec), binning |-> None, gain |-> None,
             offset |-> None, temp |-> None]]
Frame == WalkFile(".fits", FALSE)
CalibratedFrame == WalkFile(".xisf", FALSE)
MasterXisf == WalkFile(".xisf", TRUE)
MasterFits == WalkFile(".fits", TRUE)
CacheMaster == WalkFile(".xisf", FALSE)

WalkDisks ==
  {[d \in Dirs \cup OutputDirs |->
      IF d = "A" THEN a
      ELSE IF d = "B" THEN b
      ELSE IF d = "B_processed" THEN p
      ELSE IF d = "_CalibratedFlats_1s" THEN c
      ELSE IF d = "_DarkMasters" THEN <<CacheMaster, CacheMaster, CacheMaster>>
      ELSE <<Frame, Frame, Frame>>]
     : a \in {<<>>, <<Frame, Frame, Frame>>},
       b \in {<<Frame, Frame, Frame>>, <<Frame, Frame, Frame, MasterXisf>>,
              <<Frame, Frame, MasterFits>>, <<Frame, Frame, Frame, MasterFits>>},
       p \in {<<>>, <<MasterXisf>>},
       c \in {<<>>, <<CalibratedFrame, CalibratedFrame, CalibratedFrame>>}}

\* the base roots picked in the file tree, in the order they were added;
\* the subdirectory is listed as "B" where the file tree and os.walk spell
\* it alike, as "A/B" where they do not
WalkRoots ==
  (SeqsUpTo({"A", "B"}, MaxRoots) \cup SeqsUpTo({"A", "A/B"}, MaxRoots)) \ {<<>>}

InitWalk ==
  /\ fsFlat \in WalkDisks
  /\ baseList \in WalkRoots
  /\ modelFlats = NoTree
  /\ plan = <<>>
  /\ dark_catalog = <<>>
  /\ modelDarks = NoInventory
  /\ js = NoCfg
  /\ pi_exe = TRUE
  /\ dialog = ""
  /\ workers = <<>>
  /\ sentinel_path = NoFile
  /\ PickIdle
  /\ IIIdle
  /\ RunIdle
  /\ GroupIdle
  /\ MetaIdle
  /\ darkListRoots = <<"D">>
  /\ fsDark = [d \in {"D"} |-> DarkLibrary]

NextWalk == scan_flats \/ set_all_dirs

SpecWalk == InitWalk /\ [][NextWalk]_vars

\* ------------------------------------------------- the script: run()

\* run() reads the want of a group: grp.want || {}, missing keys set to null
run_want(grp) ==
  [binning |-> IF "binning" \in grp.want.keys THEN grp.want.val.binning ELSE None,
   gain    |-> IF "gain"    \in grp.want.keys THEN grp.want.val.gain    ELSE None,
   offset  |-> IF "offset"  \in grp.want.keys THEN grp.want.val.offset  ELSE None,
   temp    |-> IF "temp"    \in grp.want.keys THEN grp.want.val.temp    ELSE None]

\* the position after group g of job j
NextPos(p, j, g) == IF g < Len(p[j].groups) THEN <<j, g + 1>> ELSE <<j + 1, 1>>

\* the body of the loop over the groups for one outcome o of pickDarkFor:
\* a missing dark or a failed synthesis is thrown out of run() and caught
\* at top level, where the sentinel is written; otherwise the flats are
\* calibrated (one output per input) and integrated
run_group(o, job, grp) ==
  LET built == SelectSeq(o.calls, LAMBDA c : c.status = "executed")
      master == integrateToMaster(Len(grp.files), FALSE, CFGrejection)
      error == IF o.status = "null" THEN "No suitable dark"
               ELSE IF o.status = "throw" THEN "ImageIntegration needs >=3 inputs"
               ELSE IF master.status = "throw" THEN "ImageIntegration needs >=3 inputs"
               ELSE ""
  IN  /\ cacheFiles' = [cacheFiles EXCEPT ![job.dirPath] = CacheAfter(@, o)]
      /\ darkLog' = darkLog \o
           [i \in DOMAIN built |->
              [dir |-> job.dirPath, name |-> built[i].name, k |-> built[i].k, n |-> built[i].n]]
      /\ IF error # ""
         THEN /\ failure' = [job |-> run_j, group |-> run_g, error |-> error]
              /\ run_pc' = "failed"
              /\ sentinel' = "ERROR"
              /\ UNCHANGED <<flatLog, run_j, run_g>>
         ELSE /\ flatLog' = Append(flatLog,
                   [job |-> run_j, group |-> run_g, dark |-> o.path, optimize |-> o.optimize,
                    kind |-> o.kind, n |-> master.n, II |-> master.II])
              /\ run_j' = NextPos(js.plan, run_j, run_g)[1]
              /\ run_g' = NextPos(js.plan, run_j, run_g)[2]
              /\ UNCHANGED <<failure, run_pc, sentinel>>

\* one turn of the loops of run(): sel = pickDarkFor(...) and what follows
RunGroup ==
  /\ run_pc = "running"
  /\ run_j <= Len(js.plan)
  /\ LET job == js.plan[run_j]
         grp == job.groups[run_g]
     IN  \E o \in pickDarkFor(grp.exposure, run_want(grp), cacheFiles[job.dirPath],
                              js.darkCatalog, CFGrejection, CFGmatch) :
           run_group(o, job, grp)
  /\ UNCHANGED <<pkVars, iiVars, appVars, grVars, lnVars, mtVars, dkVars>>

\* the end of run(): "All done." and the sentinel
RunDone ==
  /\ run_pc = "running"
  /\ run_j > Len(js.plan)
  /\ run_pc' = "done"
  /\ sentinel' = "OK"
  /\ UNCHANGED <<run_j, run_g, cacheFiles, darkLog, flatLog, failure, pkVars, iiVars, appVars, grVars, lnVars, mtVars, dkVars>>

\* the plans gather_selected_plan hands over: the ticked directories in
\* tree order, each with groups of 3 files by ascending exposure and an
\* empty want
RunKeys == {kexp(1 * UnitsPerSec), kexp(2 * UnitsPerSec)}

RunJob(d, K) ==
  LET order == SortAsc(K)
  IN  [dirPath |-> d,
       groups |-> [g \in DOMAIN order |->
                    [exposure |-> float_key(order[g]),
                     files |-> [i \in 1..MinFrames |-> <<d, MinFrames * (g - 1) + i>>],
                     want |-> EmptyObject]]]

RunPlans ==
  {<<RunJob("A", K)>> : K \in (SUBSET RunKeys) \ {{}}}
    \cup {<<RunJob("A", K), RunJob("B", L)>>
            : K \in (SUBSET RunKeys) \ {{}}, L \in (SUBSET RunKeys) \ {{}}}

\* the catalogs gather_allowed_darks hands over: never empty
RunCatalogs ==
  {WithPaths(s) :
     s \in SeqsUpTo({BareDark(t, e) : t \in DarkTypes, e \in {1 * UnitsPerSec, 2 * UnitsPerSec}},
                    MaxRunCats) \ {<<>>}}

InitRun ==
  /\ js \in {[written |-> TRUE, plan |-> p, darkCatalog |-> c] : p \in RunPlans, c \in RunCatalogs}
  /\ fsFlat = <<>> /\ baseList = <<>> /\ modelFlats = NoTree /\ plan = <<>>
  /\ dark_catalog = <<>> /\ modelDarks = NoInventory
  /\ run_pc = "running"
  /\ run_j = 1
  /\ run_g = 1
  /\ cacheFiles = [d \in Dirs |-> {}]
  /\ darkLog = <<>>
  /\ flatLog = <<>>
  /\ failure = NoFailure
  /\ sentinel = "absent"
  /\ PickIdle
  /\ IIIdle
  /\ GroupIdle
  /\ LaunchIdle
  /\ MetaIdle
  /\ DarkIdle

NextRun == RunGroup \/ RunDone

SpecRun == InitRun /\ [][NextRun]_vars

\* ------------------------- the grouping of one directory by scan_flats

RECURSIVE missing_exp_of(_, _)
\* m["missing_exp"] += 1 for every candidate file whose exposure is None
missing_exp_of(flat_files, listing) ==
  IF flat_files = <<>> THEN 0
  ELSE (IF listing[Head(flat_files)].meta.exposure = None THEN 1 ELSE 0)
         + missing_exp_of(Tail(flat_files), listing)


\* the frames a directory may hold: without readable exposure, of 1 s, of
\* 1.0004 s (rounds to 1.000), of 1.0006 s (rounds to 1.001) and of 2 s
GroupFileKinds ==
  {[ext |-> ".fits", master |-> FALSE,
    meta |-> [exposure |-> e, binning |-> None, gain |-> None, offset |-> None, temp |-> None]]
     : e \in {None, Some(1 * UnitsPerSec), Some(1 * UnitsPerSec + 4),
              Some(1 * UnitsPerSec + 6), Some(2 * UnitsPerSec)}}

InitGroup ==
  /\ grListing \in SeqsUpTo(GroupFileKinds, MaxListing)
  /\ grBins = <<>>
  /\ grMissing = 0
  /\ grGroups = <<>>
  /\ grAgain = <<>>
  /\ grPc = "listed"
  /\ PickIdle
  /\ IIIdle
  /\ AppIdle
  /\ RunIdle
  /\ LaunchIdle
  /\ MetaIdle
  /\ DarkIdle

\* scan_flats on one directory r = "A": bins, the missing-exposure count
\* and the groups of at least 3 files
GroupDir ==
  /\ grPc = "listed"
  /\ grBins' = bins_of(grListing)
  /\ grMissing' = missing_exp_of(dir_image_files(grListing), grListing)
  /\ grGroups' = groups_of("A", grListing)
  /\ grPc' = "grouped"
  /\ UNCHANGED <<grListing, grAgain, pkVars, iiVars, appVars, runVars, lnVars, mtVars, dkVars>>

\* the same grouping on the files of the groups just made
Regroup ==
  /\ grPc = "grouped"
  /\ LET kept == Concat([g \in DOMAIN grGroups |->
                           [i \in DOMAIN grGroups[g].files |-> grGroups[g].files[i][2]]])
         listing == [i \in DOMAIN kept |-> grListing[kept[i]]]
         again == groups_of("A", listing)
     IN  grAgain' = [g \in DOMAIN again |->
                       [exposure |-> again[g].exposure,
                        files |-> [i \in DOMAIN again[g].files |->
                                     <<"A", kept[again[g].files[i][2]]>>],
                        want |-> again[g].want]]
  /\ grPc' = "regrouped"
  /\ UNCHANGED <<grListing, grBins, grMissing, grGroups, pkVars, iiVars, appVars, runVars, lnVars, mtVars, dkVars>>

NextGroup == GroupDir \/ Regroup

SpecGroup == InitGroup /\ [][NextGroup]_vars

\* ------------------------------------- read_meta: the exposure of a file

\* A file name (os.path.basename) is a sequence of symbols: a digit, the
\* letters "s", "S", "I", "N", "x" (any other letter), the word "EXPOSURE"
\* in any case, and the separators "_", "-", "=", ":", " ", ".".
Digits == <<"0", "1", "2", "3", "4", "5", "6", "7", "8", "9">>
Digit(c) == c \in Range(Digits)
DigitVal(c) == (CHOOSE d \in DOMAIN Digits : Digits[d] = c) - 1
Letter(c) == c \in {"x", "s", "S", "I", "N", "EXPOSURE"}

\* [A-Za-z] before the place i: the lookbehind (?<![A-Za-z]) fails
AfterLetter(name, i) == i > 1 /\ Letter(name[i - 1])

RECURSIVE DigitsEnd(_, _)
\* \d+ from the digit at i: the place of its last digit
DigitsEnd(name, i) ==
  IF i < Len(name) /\ Digit(name[i + 1]) THEN DigitsEnd(name, i + 1) ELSE i

RECURSIVE IntValue(_, _, _)
IntValue(name, i, j) ==
  IF j < i THEN 0 ELSE IntValue(name, i, j - 1) * 10 + DigitVal(name[j])

RECURSIVE FracValue(_, _, _, _)
\* the digits i..j after the point, in exposure units; unit is the weight
\* of the digit at i (digits beyond the 4th decimal weigh nothing)
FracValue(name, i, j, unit) ==
  IF j < i THEN 0
  ELSE DigitVal(name[i]) * unit + FracValue(name, i + 1, j, unit \div 10)

\* (\d+(?:\.\d+)?) at the digit at i, and float(m.group(1)): where the
\* number ends and its value in exposure units
NumberAt(name, i) ==
  LET j == DigitsEnd(name, i)
      frac == j + 2 <= Len(name) /\ name[j + 1] = "." /\ Digit(name[j + 2])
      e == IF frac THEN DigitsEnd(name, j + 2) ELSE j
  IN  [end |-> e,
       value |-> IntValue(name, i, j) * UnitsPerSec
                   + (IF frac THEN FracValue(name, j + 2, e, UnitsPerSec \div 10) ELSE 0)]

RECURSIVE SkipSpaces(_, _)
\* \s* from the place i: the first place that holds no space
SkipSpaces(name, i) ==
  IF i <= Len(name) /\ name[i] = " " THEN SkipSpaces(name, i + 1) ELSE i

\* s(?=[_\- \.]|$) at the place p, IGNORECASE
UnitAt(name, p) ==
  /\ p <= Len(name)
  /\ name[p] \in {"s", "S"}
  /\ (p = Len(name) \/ name[p + 1] \in {"_", "-", " ", "."})

\* rx.search(name) finds the leftmost of the places where the pattern matches
Leftmost(hits) == CHOOSE i \in hits : \A h \in hits : i <= h

\* (?<![A-Za-z])(\d+(?:\.\d+)?)\s*s(?=[_\- \.]|$): a trailing <number>s
TrailingAt(name, i) ==
  /\ ~AfterLetter(name, i)
  /\ Digit(name[i])
  /\ UnitAt(name, SkipSpaces(name, NumberAt(name, i).end + 1))
\* the group(1) of that pattern's match as a number, None without a match
rx_trailing(name) ==
  LET hits == {i \in DOMAIN name : TrailingAt(name, i)}
  IN  IF hits = {} THEN None ELSE Some(NumberAt(name, Leftmost(hits)).value)

\* EXPOSURE[_\-=: ]?(\d+(?:\.\d+)?): the place of the number after the word
ExposureNumber(name, i) ==
  IF i < Len(name) /\ name[i + 1] \in {"_", "-", "=", ":", " "} THEN i + 2 ELSE i + 1
ExposureAt(name, i) ==
  /\ name[i] = "EXPOSURE"
  /\ ExposureNumber(name, i) <= Len(name)
  /\ Digit(name[ExposureNumber(name, i)])
rx_exposure(name) ==
  LET hits == {i \in DOMAIN name : ExposureAt(name, i)}
  IN  IF hits = {} THEN None
      ELSE Some(NumberAt(name, ExposureNumber(name, Leftmost(hits))).value)

\* (?<![A-Za-z])S(?:IN)?\s*(\d+(?:\.\d+)?)\s*s(?=[_\- \.]|$): S<number>s
SNumber(name, i) ==
  SkipSpaces(name, IF i + 2 <= Len(name) /\ name[i + 1] = "I" /\ name[i + 2] = "N"
                   THEN i + 3 ELSE i + 1)
SAt(name, i) ==
  /\ ~AfterLetter(name, i)
  /\ name[i] \in {"s", "S"}
  /\ SNumber(name, i) <= Len(name)
  /\ Digit(name[SNumber(name, i)])
  /\ UnitAt(name, SkipSpaces(name, NumberAt(name, SNumber(name, i)).end + 1))
rx_S(name) ==
  LET hits == {i \in DOMAIN name : SAt(name, i)}
  IN  IF hits = {} THEN None ELSE Some(NumberAt(name, SNumber(name, Leftmost(hits))).value)

\* _infer_exposure_from_name: the patterns of _EXPOSURE_NAME_RES in their
\* order, the first that matches supplies the exposure
infer_exposure_from_name(name) ==
  IF rx_trailing(name) # None THEN rx_trailing(name)
  ELSE IF rx_exposure(name) # None THEN rx_exposure(name)
  ELSE rx_S(name)

\* A header value: a "float", a "str" (that spells the number lit, or no
\* number when lit is None), or Python's "None".
Py(kind, lit) == [kind |-> kind, lit |-> lit]

\* _coerce_float(v): None for None and for what float() rejects
coerce_float(v) == IF v.kind = "None" THEN None ELSE v.lit

FITS_KEYS_EXPTIME == <<"EXPTIME", "EXPOSURE", "EXPOSURETIME", "X_EXPOSURE">>

\* get(keys) of _fits_meta: the value of the first key that is in the header
hdr_get(cards, keys) ==
  LET present == SelectSeq(keys, LAMBDA k : k \in DOMAIN cards)
  IN  IF present = <<>> THEN Py("None", None) ELSE cards[present[1]]

\* pick(keys, alt_props) of _xisf_meta: the first key among the FITSKeyword
\* elements, else the first Property whose id contains an alternative name
\* (alternatives in their order, then properties in document order)
xisf_pick(cards, props, keys, alt_props) ==
  LET present == SelectSeq(keys, LAMBDA k : k \in DOMAIN cards)
      hits(k) == SelectSeq(props, LAMBDA pr : k \in pr.has)
      alts == SelectSeq(alt_props, LAMBDA k : hits(k) # <<>>)
  IN  IF present # <<>> THEN cards[present[1]]
      ELSE IF alts # <<>> THEN hits(alts[1])[1].value
      ELSE Py("None", None)

\* the metadata when no header was read
name_only(f) ==
  [exposure |-> infer_exposure_from_name(f.name), binning |-> None, gain |-> None,
   offset |-> None, temp |-> None]

exposure_ofNameFirst(v, name) ==
  \* mutant: the header value is used only when the name gives no exposure
  IF infer_exposure_from_name(name) # None THEN infer_exposure_from_name(name)
  ELSE coerce_float(v)

\* ex = _coerce_float(...); if ex is None: ex = _infer_exposure_from_name(path)
exposure_of(v, name) ==
  IF coerce_float(v) = None THEN infer_exposure_from_name(name) ELSE coerce_float(v)

\* _fits_meta: without astropy, or when the file cannot be opened as FITS
\* (f.opens is FALSE), only the name is used
fits_meta(f, has_astropy) ==
  IF ~has_astropy THEN name_only(f)
  ELSE IF ~f.opens THEN name_only(f)
  ELSE [exposure |-> exposure_of(hdr_get(f.cards, FITS_KEYS_EXPTIME), f.name),
        binning |-> f.binning, gain |-> f.gain, offset |-> f.offset, temp |-> f.temp]

\* _xisf_meta: when no XML header is found or it does not parse (f.opens is
\* FALSE), only the name is used
xisf_meta(f) ==
  IF ~f.opens THEN name_only(f)
  ELSE [exposure |-> exposure_of(xisf_pick(f.cards, f.props, FITS_KEYS_EXPTIME,
                                           <<"EXPOSURE", "EXPTIME">>), f.name),
        binning |-> f.binning, gain |-> f.gain, offset |-> f.offset, temp |-> f.temp]

\* read_meta: dispatch on the lower-cased extension
read_meta(f, has_astropy) ==
  IF f.ext \in {".fits", ".fit"} THEN fits_meta(f, has_astropy)
  ELSE IF f.ext = ".xisf" THEN xisf_meta(f)
  ELSE name_only(f)

\* ---------------------- _scan_files_meta_threaded and the grouping after it

\* meta_map: the dict that out has become, the last value stored per path
meta_map_of(out) ==
  [p \in {out[n][1] : n \in DOMAIN out} |->
     out[CHOOSE n \in DOMAIN out :
           out[n][1] = p /\ \A m \in DOMAIN out : out[m][1] = p => m <= n][2]]

scan_orderAsCompleted(flat_files, out) ==
  \* mutant: the files are grouped in the order their metadata arrived
  [n \in DOMAIN out |-> out[n][1]]

\* "for p in flat_files": the order in which the grouping takes the files
scan_order(flat_files, out) == [i \in DOMAIN flat_files |-> i]

\* lines 814-864 on one directory: the bins and the groups, as places in
\* flat_files, from the metadata in meta_map
group_scanned(flat_files, out) ==
  LET meta_map == meta_map_of(out)
      order == scan_order(flat_files, out)
      listing == [n \in DOMAIN order |->
                    [ext |-> flat_files[order[n]].ext, master |-> FALSE,
                     meta |-> meta_map[order[n]]]]
      bins == bins_of(listing)
      groups == groups_of("A", listing)
  IN  [meta_map |-> meta_map,
       bins |-> [k \in DOMAIN bins |-> [n \in DOMAIN bins[k] |-> order[bins[k][n]]]],
       groups |-> [g \in DOMAIN groups |->
                     [exposure |-> groups[g].exposure,
                      files |-> [n \in DOMAIN groups[g].files |->
                                   <<"A", order[groups[g].files[n][2]]>>],
                      want |-> groups[g].want]]]

\* file names: flat_45s.fits, EXPOSURE=30_45s.fits, flat_S5s.xisf,
\* EXPOSURE_2.5.fits, flat.fits
Name45s == <<"x", "_", "4", "5", "s", ".", "x">>
NameBoth == <<"EXPOSURE", "=", "3", "0", "_", "4", "5", "s", ".", "x">>
NameS5s == <<"x", "_", "S", "5", "s", ".", "x">>
NameExposure == <<"EXPOSURE", "_", "2", ".", "5", ".", "x">>
NamePlain == <<"x", ".", "x">>

MetaFile(ext, name, opens, cards, props, binning) ==
  [ext |-> ext, name |-> name, opens |-> opens, cards |-> cards, props |-> props,
   binning |-> binning, gain |-> None, offset |-> None, temp |-> None]

\* the files a directory may hold
MetaFileKinds ==
  { \* EXPTIME = 30.0 in the header, _45s in the name
    MetaFile(".fits", Name45s, TRUE, [k \in {"EXPTIME"} |-> Py("float", Some(30 * UnitsPerSec))],
             <<>>, Some("1")),
    \* EXPOSURE = '30.0' as a FITSKeyword of an XISF header, no hint in the name
    MetaFile(".xisf", NamePlain, TRUE,
             [k \in {"EXPOSURE"} |-> Py("str", Some(30 * UnitsPerSec))], <<>>, Some("2")),
    \* no exposure in the header, EXPOSURE=30 and _45s in the name
    MetaFile(".fits", NameBoth, TRUE, <<>>, <<>>, None),
    \* an XISF file whose header does not parse, S5s in the name
    MetaFile(".xisf", NameS5s, FALSE, <<>>, <<>>, Some("1")),
    \* EXPTIME holds text, EXPOSURE = 30.0, _45s in the name
    MetaFile(".fits", Name45s, TRUE,
             [k \in {"EXPTIME", "EXPOSURE"} |->
                IF k = "EXPTIME" THEN Py("str", None) ELSE Py("float", Some(30 * UnitsPerSec))],
             <<>>, Some("2")),
    \* an XISF Property Instrument:ExposureTime = 2.5, EXPOSURE_2.5 in the name
    MetaFile(".xisf", NameExposure, TRUE, <<>>,
             <<[has |-> {"EXPOSURE"}, value |-> Py("str", Some(5 * (UnitsPerSec \div 2)))]>>,
             None),
    \* nothing in the header, nothing in the name
    MetaFile(".fit", NamePlain, TRUE, <<>>, <<>>, None) }

InitMeta ==
  /\ HAS_ASTROPY \in BOOLEAN
  /\ mtFiles \in SeqsUpTo(MetaFileKinds, MaxMetaFiles) \ {<<>>}
  /\ mtFuts = DOMAIN mtFiles
  /\ mtOut = <<>>
  /\ mtRes = NoScan
  /\ mtPc = "extract"
  /\ PickIdle
  /\ IIIdle
  /\ AppIdle
  /\ RunIdle
  /\ GroupIdle
  /\ LaunchIdle
  /\ DarkIdle

\* a task completes and as_completed yields it: out[p] = meta
TaskDone ==
  \E i \in mtFuts :
    /\ mtPc = "extract"
    /\ mtOut' = Append(mtOut, <<i, read_meta(mtFiles[i], HAS_ASTROPY)>>)
    /\ mtFuts' = mtFuts \ {i}
    /\ UNCHANGED <<HAS_ASTROPY, mtFiles, mtRes, mtPc,
                   pkVars, iiVars, appVars, runVars, grVars, lnVars, dkVars>>

\* every future was yielded, the pool is shut down and out returned; the
\* directory is binned and grouped
GroupScanned ==
  /\ mtPc = "extract"
  /\ mtFuts = {}
  /\ mtRes' = group_scanned(mtFiles, mtOut)
  /\ mtPc' = "grouped"
  /\ UNCHANGED <<HAS_ASTROPY, mtFiles, mtFuts, mtOut,
                 pkVars, iiVars, appVars, runVars, grVars, lnVars, dkVars>>

NextMeta == TaskDone \/ GroupScanned

SpecMeta == InitMeta /\ [][NextMeta]_vars

\* ------------------------------------- scan_darks over overlapping roots

\* the dark root D with its subdirectory E, holding raw frames of 1 s
DarkDisks ==
  LET raw == {DarkFile("DARK", Some(1 * UnitsPerSec)),
              DarkFile("DARKFLAT", Some(1 * UnitsPerSec))}
  IN  {[dir \in {"D", "E"} |-> IF dir = "D" THEN d ELSE e]
         : d \in SeqsUpTo(raw, MaxDarkFiles), e \in SeqsUpTo(raw, 1)}

\* the roots added with the directory dialog, in order; the subdirectory is
\* listed as "E" where the dialog and os.walk spell it alike, as "D/E" where
\* they do not
DarkRoots == SeqsUpTo({"D", "E"}, MaxDarkRoots) \cup SeqsUpTo({"D", "D/E"}, MaxDarkRoots)

InitDarks ==
  /\ fsFlat = LaunchDisk
  /\ baseList = <<"A">>
  /\ modelFlats = NoTree
  /\ plan = <<>>
  /\ dark_catalog = <<>>
  /\ modelDarks = NoInventory
  /\ js = NoCfg
  /\ pi_exe = TRUE
  /\ dialog = ""
  /\ workers = <<>>
  /\ sentinel_path = NoFile
  /\ darkListRoots \in DarkRoots
  /\ fsDark \in DarkDisks
  /\ PickIdle
  /\ IIIdle
  /\ RunIdle
  /\ GroupIdle
  /\ MetaIdle

NextDarks == scan_flats \/ scan_darks \/ runSelected \/ DismissDialog

SpecDarks == InitDarks /\ [][NextDarks]_vars

\* ===================================================== claims: pickDarkFor

\* the catalog places of the entries of a type at the target exposure key
AtTarget(type) ==
  {i \in DOMAIN pkCats : pkCats[i].type = type /\ kexp(pkCats[i].exposure) = kexp(pkExp)}
OfType(type) == {i \in DOMAIN pkCats : pkCats[i].type = type}

\* the entry set of each tier, read off the catalog
TierEntries(t) ==
  CASE t = 1 -> AtTarget("MASTERDARKFLAT")
    [] t = 2 -> AtTarget("DARKFLAT")
    [] t = 3 -> AtTarget("MASTERDARK")
    [] t = 4 -> AtTarget("DARK")
    [] t = 5 -> OfType("MASTERDARK") \cup OfType("DARK")

FirstTier ==
  IF \E t \in 1..5 : TierEntries(t) # {}
  THEN CHOOSE t \in 1..5 : TierEntries(t) # {} /\ \A u \in 1..(t - 1) : TierEntries(u) = {}
  ELSE 0

\* C1: the tier that decides a call of pickDarkFor (by returning a dark, or
\* by failing in its synthesis) is the first of the five tiers, in the order
\* MASTERDARKFLAT, DARKFLAT stack, MASTERDARK, DARK stack, nearest exposure,
\* whose entry set is not empty, and the call returns null exactly when all
\* are empty; with a MASTERDARKFLAT and a DARKFLAT stack at the target
\* exposure a MASTERDARKFLAT entry is returned and integrateToMaster is not
\* called.
C1_TierOrder ==
  pkPc = "returned" =>
    /\ pkSel.tier = FirstTier
    /\ (pkSel.status = "null") = (FirstTier = 0)
    /\ pkSel.tier \in {1, 3} => pkSel.status = "ok"
    /\ (AtTarget("MASTERDARKFLAT") # {} /\ AtTarget("DARKFLAT") # {}) =>
         /\ pkSel.status = "ok"
         /\ pkSel.path.src = "cat"
         /\ pkSel.path.id \in AtTarget("MASTERDARKFLAT")
         /\ pkSel.calls = <<>>

C1_Witness ==
  /\ pkPc = "returned"
  /\ AtTarget("MASTERDARKFLAT") # {}
  /\ AtTarget("DARKFLAT") # {}
  /\ pkSel.tier = 1
  /\ pkSel.calls = <<>>

\* the chosen catalog entry of an exact tier, and its rivals
Chosen == pkCats[pkSel.path.id]
Rivals == IF pkSel.tier = 1 THEN AtTarget("MASTERDARKFLAT") ELSE AtTarget("MASTERDARK")
ScoreAt(i) == metaScore(pkCats[i], pkWant, CFGmatch)

\* C8: in tiers 1 and 3 the returned candidate has the maximal metaScore
\* among the candidates of its kind at the target exposure, and every
\* candidate before it in the catalog scores strictly less.
C8_BestFirst ==
  (pkPc = "returned" /\ pkSel.tier \in {1, 3}) =>
    /\ pkSel.path.src = "cat"
    /\ pkSel.path.id \in Rivals
    /\ \A i \in Rivals : ScoreAt(i) <= ScoreAt(pkSel.path.id)
    /\ \A i \in Rivals : i < pkSel.path.id => ScoreAt(i) < ScoreAt(pkSel.path.id)

C8_Witness ==
  /\ pkPc = "returned"
  /\ pkSel.tier = 3
  /\ \E i, j \in Rivals :
       /\ i < j
       /\ ScoreAt(i) = ScoreAt(j)
       /\ ScoreAt(i) > 0
       /\ pkSel.path.id = i

\* C9: with two MASTERDARK candidates at the target exposure, one with the
\* wanted binning and one with another binning, the returned candidate has
\* the wanted binning.
C9_BinningWins ==
  (/\ pkPc = "returned"
   /\ pkSel.tier = 3
   /\ CFGmatch.enforceBinning
   /\ Truthy(pkWant.binning)
   /\ \E i, j \in AtTarget("MASTERDARK") :
        /\ pkCats[i].binning = pkWant.binning
        /\ Truthy(pkCats[j].binning)
        /\ pkCats[j].binning # pkWant.binning)
  => Chosen.binning = pkWant.binning

\* the exposure of a returned path: a catalog entry's own, a cache file's key
ExposureOf(p) == IF p.src = "cat" THEN pkCats[p.id].exposure ELSE parseFloatKey(p.k)

\* the exposures the nearest tier chooses among: every MASTERDARK entry and
\* every DARK stack (at its key)
NearestExposures ==
  {pkCats[i].exposure : i \in OfType("MASTERDARK")}
    \cup {parseFloatKey(kexp(pkCats[i].exposure)) : i \in OfType("DARK")}

MD60and300 ==
  /\ Len(pkCats) = 2
  /\ \A i \in DOMAIN pkCats : pkCats[i].type = "MASTERDARK"
  /\ {pkCats[i].exposure : i \in DOMAIN pkCats} = {60 * UnitsPerSec, 300 * UnitsPerSec}

\* C10: in the nearest-exposure tier the returned dark is a MASTERDARK or a
\* built DARK stack whose exposure is at the least distance from the target
\* among all of them, and optimize is true; with MASTERDARK at 60 s and
\* 300 s only and a target of 120 s the 60 s dark is returned.
C10_Nearest ==
  (pkPc = "returned" /\ pkSel.tier = 5 /\ pkSel.status = "ok") =>
    /\ pkSel.optimize = TRUE
    /\ ExposureOf(pkSel.path) \in NearestExposures
    /\ \A e \in NearestExposures : Abs(ExposureOf(pkSel.path) - pkExp) <= Abs(e - pkExp)
    /\ (pkSel.path.src = "cat" => pkCats[pkSel.path.id].type = "MASTERDARK")
    /\ (pkSel.path.src = "cache" => pkSel.path.name = "MasterDark")
    /\ (MD60and300 /\ pkExp = 120 * UnitsPerSec) =>
         ExposureOf(pkSel.path) = 60 * UnitsPerSec

C10_Witness ==
  /\ pkPc = "returned"
  /\ MD60and300
  /\ pkExp = 120 * UnitsPerSec
  /\ pkSel.tier = 5
  /\ pkSel.optimize = TRUE
  /\ ExposureOf(pkSel.path) = 60 * UnitsPerSec

\* ================================================ claims: integrateToMaster

\* the rejection table for flats, as stated
TableHolds(II, n) ==
  IF n < 6
  THEN II.rejection = Some("Rej_PC") /\ II.pcClipLow = Some(20) /\ II.pcClipHigh = Some(10)
  ELSE IF n <= 15
  THEN /\ II.rejection = Some("Rej_Winsor")
       /\ II.sigmaLow = Some(400) /\ II.sigmaHigh = Some(300)
       /\ II.winsorizationCutoff = Some(500)
  ELSE /\ II.rejection = Some("Rej_LinFit")
       /\ II.linearFitLow = Some(500) /\ II.linearFitHigh = Some(400)

\* C2: an executed integration of n flat frames runs with percentile clip
\* (0.20, 0.10) for n < 6, winsorized sigma clip (4.0, 3.0, cutoff 5.0) for
\* 6 <= n <= 15 and linear-fit clip (5.0, 4.0) for n > 15, whatever
\* CFG.rejection holds.
C2_FlatTable ==
  (iiPc = "returned" /\ ~ForDark(iiOut) /\ iiRes.status = "executed") =>
    TableHolds(iiRes.II, iiN)

\* ======================================================== claims: scanning

\* the exposure bucket k of directory d, read off the disk: the places of
\* its candidate files whose exposure rounds to k
Bucket(d, k) ==
  {i \in Range(dir_image_files(fsFlat[d])) :
     /\ fsFlat[d][i].meta.exposure # None
     /\ bucket_key(Num(fsFlat[d][i].meta.exposure)) = k}

BucketKeys(d) ==
  {bucket_key(Num(fsFlat[d][i].meta.exposure)) :
     i \in {j \in DOMAIN fsFlat[d] : fsFlat[d][j].meta.exposure # None}}

AllKeys == UNION {BucketKeys(d) : d \in Dirs}

\* the directories scan_flats visits
Scanned == UNION {Range(os_walk(baseList[b])) : b \in DOMAIN baseList}

\* group g of a job is bucket k of the job's directory
IsBucket(job, g, k) ==
  /\ job.groups[g].exposure = float_key(k)
  /\ Range(job.groups[g].files) = {<<job.dirPath, i>> : i \in Bucket(job.dirPath, k)}

\* in a plan, the groups of every job are its directory's buckets of at
\* least 3 files, each once, and nothing else
GroupsAreBigBuckets(p) ==
  \A j \in DOMAIN p :
    /\ \A k \in AllKeys :
         (\E g \in DOMAIN p[j].groups : IsBucket(p[j], g, k))
           <=> Cardinality(Bucket(p[j].dirPath, k)) >= 3
    /\ \A g \in DOMAIN p[j].groups :
         /\ Len(p[j].groups[g].files) >= 3
         /\ \E k \in AllKeys : IsBucket(p[j], g, k)

\* C3: after scan_flats a bucket of a scanned directory is a group of
\* self.plan exactly if it holds at least 3 files, and in the plan written
\* for the engine the groups of every (ticked) directory are exactly its
\* buckets of at least 3 files; no group of either plan has fewer than 3
\* files.
C3_MinSamples ==
  /\ modelFlats.root =>
       /\ GroupsAreBigBuckets(plan)
       /\ \A d \in Scanned, k \in AllKeys :
            Cardinality(Bucket(d, k)) >= 3 =>
              \E j \in DOMAIN plan : plan[j].dirPath = d
  /\ js.written => GroupsAreBigBuckets(js.plan)

C3_Witness ==
  /\ js.written
  /\ \E j \in DOMAIN js.plan : \E k \in AllKeys :
       /\ Cardinality(Bucket(js.plan[j].dirPath, k)) = 3
       /\ \E g \in DOMAIN js.plan[j].groups : IsBucket(js.plan[j], g, k)
  /\ \E d \in Scanned, k \in AllKeys : Cardinality(Bucket(d, k)) = 2

HasBigBucket(d) == \E k \in AllKeys : Cardinality(Bucket(d, k)) >= 3

\* C4: after scan_flats a scanned directory is in self.plan exactly if one
\* of its buckets holds at least 3 files, at most once, whatever the other
\* directories hold; no entry of self.plan or of the plan written for the
\* engine has an empty list of groups.
C4_DirDropped ==
  /\ modelFlats.root =>
       /\ \A d \in Scanned : (\E j \in DOMAIN plan : plan[j].dirPath = d) <=> HasBigBucket(d)
       /\ \A i, j \in DOMAIN plan : plan[i].dirPath = plan[j].dirPath => i = j
       /\ \A j \in DOMAIN plan : plan[j].groups # <<>>
       /\ {modelFlats.dirs[i].dir : i \in DOMAIN modelFlats.dirs}
            = {plan[j].dirPath : j \in DOMAIN plan}
  /\ js.written => \A j \in DOMAIN js.plan : js.plan[j].groups # <<>>

\* the first directory of the walk holds files but no bucket of 3 and is
\* dropped, the second one is kept
C4_Witness ==
  /\ modelFlats.root
  /\ fsFlat["A"] # <<>>
  /\ ~HasBigBucket("A")
  /\ Len(plan) = 1
  /\ plan[1].dirPath = "B"
  /\ js.written

\* the metadata of the first file, in sorted path order, of a group
FirstMeta(grp) ==
  LET first == CHOOSE f \in Range(grp.files) : \A o \in Range(grp.files) : f[2] <= o[2]
  IN  fsFlat[first[1]][first[2]].meta

\* C7: the want profile of every group of the plan written for the engine
\* is the binning, gain, offset and temperature of the first file, in
\* sorted path order, of the group.
C7_WantFromFirstFile ==
  js.written =>
    \A j \in DOMAIN js.plan : \A g \in DOMAIN js.plan[j].groups :
      run_want(js.plan[j].groups[g]) = want_of(FirstMeta(js.plan[j].groups[g]))

\* ===================================================== claims: run()

RunEnded == run_pc \in {"done", "failed"}

\* C5: within one execution of run() no master dark is integrated twice
\* for the same kind (MasterDarkFlat_ or MasterDark_) and exposure,
\* whichever directories and tiers ask for it.
C5_SynthesisOnce ==
  \A a, b \in DOMAIN darkLog :
    (darkLog[a].name = darkLog[b].name /\ darkLog[a].k = darkLog[b].k) => a = b

\* the groups of job j that were calibrated and integrated
Processed(j) == {flatLog[i].group : i \in {i \in DOMAIN flatLog : flatLog[i].job = j}}

\* job j can be processed on its own: each of its groups gets a dark
Resolvable(j) ==
  \A g \in DOMAIN js.plan[j].groups :
    \A o \in pickDarkFor(js.plan[j].groups[g].exposure, run_want(js.plan[j].groups[g]), {},
                         js.darkCatalog, CFGrejection, CFGmatch) : o.status = "ok"

\* C6: when run() has ended and pickDarkFor found no dark for a group,
\* every other job of the plan whose own groups all have a dark has been
\* calibrated and integrated in that run.
C6_OtherJobsContinue ==
  (RunEnded /\ failure.error = "No suitable dark") =>
    \A j \in DOMAIN js.plan :
      (j # failure.job /\ Resolvable(j)) => Processed(j) = DOMAIN js.plan[j].groups

\* the group a calibration of flatLog was made for
GroupOf(i) == js.plan[flatLog[i].job].groups[flatLog[i].group]

\* the catalog holds a dark of some type at the exposure of group grp
HasSameExposure(grp) ==
  \E c \in Range(js.darkCatalog) : kexp(c.exposure) = kexp(grp.exposure)

\* C11: every calibration run() makes gets optimize = true exactly if the
\* catalog holds no dark of any type at the group's exposure, that is, the
\* dark came from the nearest-exposure tier; exact and built darks of the
\* same exposure are applied with optimize = false.
C11_OptimizeIffNearest ==
  \A i \in DOMAIN flatLog :
    /\ flatLog[i].optimize <=> ~HasSameExposure(GroupOf(i))
    /\ flatLog[i].optimize <=> flatLog[i].kind = "MasterDark(nearest+optimize)"

\* one run calibrates a group with a nearest dark and another with a built one
C11_Witness ==
  \E a, b \in DOMAIN flatLog :
    /\ flatLog[a].optimize /\ ~HasSameExposure(GroupOf(a))
    /\ ~flatLog[b].optimize /\ flatLog[b].kind = "MasterDark(built)"

\* the number of catalog entries of a type at the exposure of group grp
StackSize(grp, type) ==
  Cardinality({i \in DOMAIN js.darkCatalog :
                 /\ js.darkCatalog[i].type = type
                 /\ kexp(js.darkCatalog[i].exposure) = kexp(grp.exposure)})

\* the raw stack pickDarkFor integrates at tier 2 or tier 4 for group grp
\* has fewer than 3 frames
ShortStack(grp) ==
  /\ StackSize(grp, "MASTERDARKFLAT") = 0
  /\ \/ StackSize(grp, "DARKFLAT") \in 1..2
     \/ /\ StackSize(grp, "DARKFLAT") = 0
        /\ StackSize(grp, "MASTERDARK") = 0
        /\ StackSize(grp, "DARK") \in 1..2

\* C12: every integration run() executed, for a dark cache file or for a
\* master flat, had at least 3 input frames; a group whose DARKFLAT or
\* DARK stack at its exposure has fewer than 3 frames is never calibrated,
\* the run fails at it with the integration's error.
C12_MinimumInputs ==
  /\ \A i \in DOMAIN darkLog : darkLog[i].n >= 3
  /\ \A i \in DOMAIN flatLog : flatLog[i].n >= 3 /\ ~ShortStack(GroupOf(i))
  /\ (run_pc = "failed" /\ ShortStack(js.plan[failure.job].groups[failure.group]))
       => failure.error = "ImageIntegration needs >=3 inputs"

\* a run that integrated the 3 flats of one group fails at the next group,
\* whose DARK stack holds 2 frames
C12_Witness ==
  /\ run_pc = "failed"
  /\ ShortStack(js.plan[failure.job].groups[failure.group])
  /\ StackSize(js.plan[failure.job].groups[failure.group], "DARK") = 2
  /\ flatLog # <<>>

\* ===================================================== claims: metaScore

Known(x) == x # None
Bonus(cond, v) == IF cond THEN v ELSE 0

\* the score the rule gives candidate i of the catalog, in tenths, with its
\* distances in the units of the catalog: 0.01 of gain is 2 units, 0.5 of
\* offset is 2 units, 5.0 C is 10 units and 0.2 per degree is 1 per unit
RuleScore(i) ==
  LET c == pkCats[i]
      w == pkWant
  IN  Bonus(Known(c.binning) /\ Known(w.binning) /\ c.binning = w.binning, 30)
    + Bonus(Known(c.gain) /\ Known(w.gain) /\ Abs(Num(c.gain) - Num(w.gain)) < 2, 20)
    + Bonus(Known(c.offset) /\ Known(w.offset) /\ Abs(Num(c.offset) - Num(w.offset)) < 2, 20)
    + (IF Known(c.temp) /\ Known(w.temp) /\ Abs(Num(c.temp) - Num(w.temp)) <= 10
       THEN 15 - Abs(Num(c.temp) - Num(w.temp)) ELSE 0)

\* candidates i and j differ in temperature only, both inside the window
OnlyTempDiffers(i, j) ==
  /\ pkCats[i].type = pkCats[j].type
  /\ pkCats[i].binning = pkCats[j].binning
  /\ pkCats[i].gain = pkCats[j].gain
  /\ pkCats[i].offset = pkCats[j].offset
  /\ Known(pkCats[i].temp) /\ Known(pkCats[j].temp) /\ Known(pkWant.temp)
  /\ Abs(Num(pkCats[i].temp) - Num(pkWant.temp)) <= 10
  /\ Abs(Num(pkCats[j].temp) - Num(pkWant.temp)) <= 10

\* C13: with the match options runSelected writes, metaScore of every
\* candidate is 3 for equal known binnings, plus 2 for known gains less
\* than 0.01 apart, plus 2 for known offsets less than 0.5 apart, plus
\* 1.5 - 0.2*|dT| for known temperatures at most 5.0 C apart; of two
\* candidates that differ in temperature only, inside the window, the
\* closer one scores strictly higher.
C13_MetaScore ==
  pkPc = "returned" =>
    /\ \A i \in DOMAIN pkCats : ScoreAt(i) = RuleScore(i)
    /\ \A i, j \in DOMAIN pkCats :
         (/\ OnlyTempDiffers(i, j)
          /\ Abs(Num(pkCats[i].temp) - Num(pkWant.temp))
               < Abs(Num(pkCats[j].temp) - Num(pkWant.temp)))
           => ScoreAt(i) > ScoreAt(j)

\* the second of two candidates that differ in temperature only is the
\* closer one, scores higher and is returned
C13_Witness ==
  /\ pkPc = "returned"
  /\ pkWant = FullWant
  /\ Len(pkCats) = 2
  /\ OnlyTempDiffers(1, 2)
  /\ pkCats[1].temp = Some(0 - 16)
  /\ pkCats[2].temp = Some(0 - 20)
  /\ ScoreAt(2) > ScoreAt(1)
  /\ pkSel.path = CatPath(pkCats[2])

\* ===================================================== claims: grouping

\* C14: grouping the files of the groups scan_flats made of a directory
\* gives the same groups again: the same exposures in the same order, each
\* with the same files in the same order and the same want.
C14_GroupingIdempotent ==
  grPc = "regrouped" => grAgain = grGroups

\* one group of 3 files was kept, a bin of fewer than 3 files and a file
\* without exposure were left out, and the second grouping is done
C14_Witness ==
  /\ grPc = "regrouped"
  /\ Len(grGroups) = 1
  /\ Len(grGroups[1].files) = 3
  /\ \E k \in DOMAIN grBins : Len(grBins[k]) < 3
  /\ grMissing = 1

\* the bins that hold file i of the listing, and how often bin k holds it
BinsOf(i) == {k \in DOMAIN grBins : i \in Range(grBins[k])}
TimesIn(k, i) == Cardinality({n \in DOMAIN grBins[k] : grBins[k][n] = i})

\* key k, in milliseconds, is exposure ex rounded to 3 decimals
IsRounded(k, ex) == Abs(k * (UnitsPerSec \div KexpScale) - ex) * 2 <= UnitsPerSec \div KexpScale

\* C15: after the grouping of a directory every file with an exposure is
\* in exactly one bin, once, and that bin's key is the exposure rounded to
\* 3 decimals; every file without exposure is in no bin, and the
\* missing-exposure count is the number of such files.
C15_OneBucketPerFile ==
  grPc \in {"grouped", "regrouped"} =>
    /\ \A i \in DOMAIN grListing :
         IF grListing[i].meta.exposure # None
         THEN /\ Cardinality(BinsOf(i)) = 1
              /\ \A k \in BinsOf(i) :
                   TimesIn(k, i) = 1 /\ IsRounded(k, Num(grListing[i].meta.exposure))
         ELSE BinsOf(i) = {}
    /\ grMissing = Cardinality({i \in DOMAIN grListing : grListing[i].meta.exposure = None})
    /\ \A k \in DOMAIN grBins : grBins[k] # <<>>

\* frames of 1 s and 1.0004 s share the bin 1.000, a frame of 1.0006 s is
\* in the bin 1.001, and two files have no exposure
C15_Witness ==
  /\ grPc = "grouped"
  /\ grMissing = 2
  /\ \E i, j, h \in DOMAIN grListing :
       /\ grListing[i].meta.exposure = Some(1 * UnitsPerSec)
       /\ grListing[j].meta.exposure = Some(1 * UnitsPerSec + 4)
       /\ grListing[h].meta.exposure = Some(1 * UnitsPerSec + 6)
       /\ BinsOf(i) = BinsOf(j)
       /\ BinsOf(h) = {kexp(1 * UnitsPerSec) + 1}

\* ===================================================== claims: runSelected

\* C16: a step of runSelected taken with no ticked directory or no allowed
\* dark shows a message box and leaves the script, the sentinel and the
\* worker threads as they are; a step that writes the script or starts a
\* worker is taken with a ticked directory and an allowed dark, which are
\* the plan and the catalog of the script.
C16_NoLaunchWithoutInput ==
  [][/\ (runSelected /\ (gather_selected_plan = <<>> \/ gather_allowed_darks = <<>>))
          => /\ dialog' # ""
             /\ js' = js
             /\ workers' = workers
             /\ sentinel_path' = sentinel_path
     /\ (js' # js \/ Len(workers') # Len(workers))
          => /\ gather_selected_plan # <<>>
             /\ gather_allowed_darks # <<>>
             /\ js'.plan = gather_selected_plan
             /\ js'.darkCatalog = gather_allowed_darks
             /\ Len(workers') = Len(workers) + 1]_vars

\* runSelected has answered "No darks selected" to a ticked directory
\* without an allowed dark, after an earlier run had started a worker
C16_Witness ==
  /\ dialog = "No darks selected"
  /\ gather_selected_plan # <<>>
  /\ gather_allowed_darks = <<>>
  /\ Len(workers) = 1

\* C17: a worker that has ended reports a missing sentinel or a spawn
\* error, or the content of a sentinel that the engine invocation of its
\* own last attempt wrote.
C17_SentinelOfThisInvocation ==
  \A w \in DOMAIN workers :
    workers[w].pc = "done" =>
      /\ workers[w].report.kind \in {"sentinel", "missing", "spawn error"}
      /\ workers[w].report.kind = "sentinel" =>
           /\ workers[w].report.text \in {"OK", "ERROR"}
           /\ workers[w].report.by = <<w, workers[w].attempt>>

\* ===================================================== claims: the walk

\* C18: after scan_flats no directory is in self.plan twice, under
\* whatever spellings of its path.
C18_DirectoryOnce ==
  modelFlats.root =>
    \A i, j \in DOMAIN plan :
      realdir(plan[i].dirPath) = realdir(plan[j].dirPath) => i = j

\* the files of the groups of self.plan, as <<path of the directory, place>>
PlanFiles ==
  UNION {UNION {Range(plan[j].groups[g].files) : g \in DOMAIN plan[j].groups}
           : j \in DOMAIN plan}

\* C19: after scan_flats no file named MasterFlat_..., whatever its
\* extension, is in a group of self.plan.
C19_NoMasterAsInput ==
  modelFlats.root =>
    \A f \in PlanFiles : ~fsFlat[realdir(f[1])][f[2]].master

\* C20: after scan_flats no directory of self.plan is a dark cache
\* directory or a calibrated-flat directory of an earlier run.
C20_NoOwnOutputs ==
  modelFlats.root =>
    \A j \in DOMAIN plan :
      realdir(plan[j].dirPath) \notin {"_DarkMasters", "_CalibratedFlats_1s"}

\* ================================================ claims: extraction

\* the pairs as_completed would store if the tasks completed in the order
\* they were submitted
SequentialOut == [i \in DOMAIN mtFiles |-> <<i, read_meta(mtFiles[i], HAS_ASTROPY)>>]

\* C21: the result of scanning a directory does not depend on the order in
\* which the extraction tasks complete.  Whatever that order was, once the
\* directory is grouped every task has been joined, and the metadata map,
\* the bins, the order of the files inside each group and the want profiles
\* are those of the run in which the tasks complete in submission order.
C21_OrderIndependent ==
  mtPc = "grouped" =>
    /\ mtFuts = {}
    /\ {mtOut[n][1] : n \in DOMAIN mtOut} = DOMAIN mtFiles
    /\ mtRes = group_scanned(mtFiles, SequentialOut)

\* a directory grouped after its last file completed first, with a group
\* whose files carry different profiles
C21_Witness ==
  /\ mtPc = "grouped"
  /\ Len(mtFiles) >= 3
  /\ mtOut[1][1] = Len(mtFiles)
  /\ \E g \in DOMAIN mtRes.groups :
       \E a, b \in Range(mtRes.groups[g].files) :
         mtRes.meta_map[a[2]].binning # mtRes.meta_map[b[2]].binning

\* the header of f was read and parsed
HeaderParsed(f) == f.opens /\ (f.ext = ".xisf" \/ HAS_ASTROPY)

\* the exposure the header of f yields: the number that the first present
\* alias holds, None when the header was not parsed, holds no exposure, or
\* holds one that is not a number
HeaderExposure(f) ==
  IF ~HeaderParsed(f) THEN None
  ELSE IF f.ext = ".xisf"
  THEN coerce_float(xisf_pick(f.cards, f.props, FITS_KEYS_EXPTIME, <<"EXPOSURE", "EXPTIME">>))
  ELSE coerce_float(hdr_get(f.cards, FITS_KEYS_EXPTIME))

\* C22: when the header of a file yields a numeric exposure, read_meta
\* reports that value and never the one encoded in the file name; the name
\* is used only when the header yields none.
C22_HeaderWins ==
  \A n \in DOMAIN mtOut :
    LET f == mtFiles[mtOut[n][1]]
        meta == mtOut[n][2]
    IN  /\ HeaderExposure(f) # None => meta.exposure = HeaderExposure(f)
        /\ meta.exposure # HeaderExposure(f) =>
             HeaderExposure(f) = None /\ meta.exposure = infer_exposure_from_name(f.name)

\* a file with 30.0 in its header and _45s in its name was extracted as 30.0
C22_Witness ==
  \E n \in DOMAIN mtOut :
    LET f == mtFiles[mtOut[n][1]]
    IN  /\ HeaderExposure(f) = Some(30 * UnitsPerSec)
        /\ rx_trailing(f.name) = Some(45 * UnitsPerSec)
        /\ mtOut[n][2].exposure = Some(30 * UnitsPerSec)

\* C23: without a header exposure the name patterns are tried in the order
\* EXPOSURE= token, trailing <number>s token, S<number>s token, and the
\* first that matches supplies the exposure (so a name matched by the first
\* two with different numbers reports the EXPOSURE= number); when none
\* matches the exposure is null.
C23_PatternOrder ==
  \A n \in DOMAIN mtOut :
    LET f == mtFiles[mtOut[n][1]]
        meta == mtOut[n][2]
    IN  HeaderExposure(f) = None =>
          meta.exposure = IF rx_exposure(f.name) # None THEN rx_exposure(f.name)
                          ELSE IF rx_trailing(f.name) # None THEN rx_trailing(f.name)
                          ELSE rx_S(f.name)

\* ================================================ claims: the dark catalog

\* C24: scan_flats leaves the dark catalog unchanged.  After any sequence
\* of scan_darks and scan_flats the darks ticked in the dark inventory are
\* exactly the darks a following runSelected delivers to the engine, and
\* runSelected does not answer "No darks selected" while darks are ticked.
C24_ScanFlatsKeepsDarks ==
  /\ modelDarks.ticked = {d.path : d \in Range(gather_allowed_darks)}
  /\ dialog = "No darks selected" => modelDarks.ticked = {}

\* the file on disk that a catalog path names
RealFile(path) == <<realdir(path[1]), path[2]>>

\* the files of a stack
StackFiles(stack) == {RealFile(stack[i].path) : i \in DOMAIN stack}

\* C25: each dark file on disk appears at most once in the dark catalog,
\* also when the dark roots overlap or a root is listed twice; so a raw
\* DARKFLAT / DARK stack of the script has as many frames as distinct files,
\* and a stack that passes the check of at least 3 frames holds at least 3
\* files.
C25_DarkOnce ==
  /\ \A i, j \in DOMAIN dark_catalog :
       RealFile(dark_catalog[i].path) = RealFile(dark_catalog[j].path) => i = j
  /\ js.written =>
       \A type \in {"DARKFLAT", "DARK"} :
         \A k \in DOMAIN groupByExp(js.darkCatalog, type) :
           LET stack == groupByExp(js.darkCatalog, type)[k]
           IN  /\ Len(stack) = Cardinality(StackFiles(stack))
               /\ integrateToMaster(Len(stack), TRUE, CFGrejection).status = "executed"
                    => Cardinality(StackFiles(stack)) >= MinFrames

\* ============================================ claims: concurrent runs

\* a worker thread started earlier has not finished
WorkerRunning == \E w \in DOMAIN workers : workers[w].pc # "done"

\* C26: engine runs started by runSelected never interfere.  A call of
\* runSelected that starts a worker while an earlier worker is still
\* executing leaves the script file and the sentinel file as that worker's
\* run has them: it neither deletes nor rewrites them.
C26_RunsDoNotInterfere ==
  [][(Len(workers') > Len(workers) /\ WorkerRunning)
       => (js' = js /\ sentinel_path' = sentinel_path)]_vars

====
